---------------------------- MODULE Spec2Model ----------------------------
(***************************************************************************)
(* Model of the food filtering pipeline (backend/filter_and_score.py) and  *)
(* of the multi-strategy meal-plan orchestrator (backend/planner.py).      *)
(*                                                                         *)
(* Text is modelled as a sequence of one-character strings, so that        *)
(* splitting, stripping, lower-casing and pattern search are computed the  *)
(* way the code computes them.  Numbers with one decimal (strictness,      *)
(* dosha effects) are kept in tenths.                                      *)
(***************************************************************************)
EXTENDS Integers, Sequences, FiniteSets, TLC

VARIABLES
    fcat,      \* filter_foods_for_user: food_df
    fprof,     \* filter_foods_for_user: user_profile
    fdosha,    \* filter_foods_for_user: target_dosha
    fmax,      \* filter_foods_for_user: max_items
    fstrict,   \* filter_foods_for_user: dosha_strictness (tenths)
    fpc,       \* "call" | "returned" | "raised"
    fres,      \* what the call computed (see FilterOutcomes)
    preq,      \* generate_meal_plan_advanced: its arguments
    ppc,       \* "start" | "strategy" | "fallback" | "done" | "raised"
    pcand,     \* scored_df: the candidate frame the prompts are built from
    pidx,      \* i + 1 of the strategy loop
    ptried,    \* the strategies attempted so far, in order
    poutcomes, \* how each attempt ended
    pplan,     \* plan: what the latest strategy returned
    pllm,      \* LLM calls made so far
    pret,      \* the plan returned
    psource,   \* where the returned plan came from
    ufn,       \* a single call of one function of the core: which function
    uarg,      \* its arguments
    upc,       \* "call" | "returned" | "raised"
    uout,      \* what it returned
    heap,      \* the DataFrame objects alive, the shared catalog among them
    reqs       \* the requests running against the shared catalog

fvars == <<fcat, fprof, fdosha, fmax, fstrict, fpc, fres>>

pvars == <<preq, ppc, pcand, pidx, ptried, poutcomes, pplan, pllm, pret, psource>>

uvars == <<ufn, uarg, upc, uout>>

hvars == <<heap, reqs>>

vars == <<fvars, pvars, uvars, hvars>>

-----------------------------------------------------------------------------
(* Text helpers                                                            *)

Range(s) == {s[i] : i \in DOMAIN s}

\* Optional[str]: None, or a text
NoneText == [none |-> TRUE, text |-> <<>>]
Text(t) == [none |-> FALSE, text |-> t]

\* Python truthiness of an Optional[str]: None and "" are falsy
Falsy(x) == x.none \/ x.text = <<>>

UpperToLower ==
    [c \in {"D", "E", "N", "P", "R", "S", "I", "B", "C", "F", "G", "L", "O", "W", "T"} |->
        CASE c = "D" -> "d" [] c = "E" -> "e" [] c = "N" -> "n"
          [] c = "P" -> "p" [] c = "R" -> "r" [] c = "S" -> "s"
          [] c = "I" -> "i" [] c = "B" -> "b" [] c = "C" -> "c"
          [] c = "F" -> "f" [] c = "G" -> "g" [] c = "L" -> "l"
          [] c = "O" -> "o" [] c = "W" -> "w" [] c = "T" -> "t"]

ToLower(c) == IF c \in DOMAIN UpperToLower THEN UpperToLower[c] ELSE c

\* str.lower()
Lower(s) == [i \in 1..Len(s) |-> ToLower(s[i])]

\* characters matched by \s, and stripped by str.strip()
IsSpace(c) == c \in {" ", "\t", "\n"}

RECURSIVE LStrip(_)
LStrip(s) ==
    IF s # <<>> /\ IsSpace(Head(s)) THEN LStrip(Tail(s)) ELSE s

RECURSIVE RStrip(_)
RStrip(s) ==
    IF s # <<>> /\ IsSpace(s[Len(s)]) THEN RStrip(SubSeq(s, 1, Len(s) - 1)) ELSE s

\* str.strip()
Strip(s) == RStrip(LStrip(s))

\* str.split(','): the pieces between commas, empty pieces kept
SplitComma(s) ==
    LET F[i \in 0..Len(s)] ==
            IF i = 0 THEN << <<>> >>
            ELSE IF s[i] = "," THEN Append(F[i - 1], <<>>)
            ELSE [F[i - 1] EXCEPT ![Len(F[i - 1])] = Append(@, s[i])]
    IN  F[Len(s)]

\* `a in b` on Python strings
IsSubstring(a, b) ==
    \E j \in 0..(Len(b) - Len(a)) : SubSeq(b, j + 1, j + Len(a)) = a

-----------------------------------------------------------------------------
(* FoodFilter.parse_restrictions / create_regex_pattern                    *)

parse_restrictions(x) ==
    IF Falsy(x) THEN <<>>
    ELSE LET items == SplitComma(x.text)
             cleaned == [i \in 1..Len(items) |-> Lower(Strip(items[i]))]
         IN  SelectSeq(cleaned, LAMBDA t : t # <<>>)

\* re.escape(term).replace('\ ', '\s*'): every space becomes \s*, every
\* other character stands for itself
EscapeTerm(term) ==
    [i \in 1..Len(term) |->
        IF term[i] = " " THEN [ws |-> TRUE, ch |-> " "]
        ELSE [ws |-> FALSE, ch |-> term[i]]]

\* the alternation, as the sequence of its alternatives; <<>> stands for None
create_regex_pattern(terms) ==
    [i \in 1..Len(terms) |-> EscapeTerm(terms[i])]

\* does alternative alt, from its element i on, match text at position j
RECURSIVE MatchAt(_, _, _, _)
MatchAt(alt, text, i, j) ==
    IF i > Len(alt) THEN TRUE
    ELSE IF alt[i].ws
         THEN \/ MatchAt(alt, text, i + 1, j)
              \/ /\ j <= Len(text)
                 /\ IsSpace(text[j])
                 /\ MatchAt(alt, text, i, j + 1)
         ELSE /\ j <= Len(text)
              /\ text[j] = alt[i].ch
              /\ MatchAt(alt, text, i + 1, j + 1)

\* Series.str.contains(pattern, regex=True) on one value
StrContains(text, pattern) ==
    \E a \in 1..Len(pattern) :
        \E j \in 1..(Len(text) + 1) : MatchAt(pattern[a], text, 1, j)

-----------------------------------------------------------------------------
(* The catalog (food_df): rows of food kinds, and the columns it carries   *)

\* dosha effects are in tenths: -10 decreases, 0 neutral, 10 increases
\* (DOSHA_MAP), 3 a mildly increasing food of a catalog not built by the
\* loader.  ingr "nan" is what astype(str) makes of a missing value.
\* Protein is in tenths of a gram.
FoodKinds ==
    [k \in {"rice", "peanut", "cake", "sugar", "egg", "oil", "transfat"} |->
        CASE k = "rice" ->
               [key |-> <<"r", "i", "c", "e">>,
                ingr |-> <<"R", "i", "c", "e">>,
                is_veg |-> TRUE, is_vegan |-> TRUE,
                Dosha_Vata |-> -10, Dosha_Pitta |-> 0, Dosha_Kapha |-> 10,
                Calories |-> 130,
                Food_Item |-> <<"R", "i", "c", "e">>,
                Category |-> <<"W", "h", "o", "l", "e", " ", "G", "r", "a", "i", "n", "s">>,
                Protein |-> 27]
          [] k = "peanut" ->
               [key |-> <<"p", "e", "a", "n", "u", "t">>,
                ingr |-> <<"n", "a", "n">>,
                is_veg |-> TRUE, is_vegan |-> TRUE,
                Dosha_Vata |-> 0, Dosha_Pitta |-> 10, Dosha_Kapha |-> -10,
                Calories |-> 567,
                Food_Item |-> <<"P", "e", "a", "n", "u", "t">>,
                Category |-> <<"L", "e", "g", "u", "m", "e", "s">>,
                Protein |-> 258]
          [] k = "cake" ->
               [key |-> <<"c", "a", "k", "e">>,
                ingr |-> <<"E", "g", "g", ",", " ", "s", "u", "g", "a", "r">>,
                is_veg |-> TRUE, is_vegan |-> FALSE,
                Dosha_Vata |-> 10, Dosha_Pitta |-> -10, Dosha_Kapha |-> 10,
                Calories |-> 350,
                Food_Item |-> <<"C", "a", "k", "e">>,
                Category |-> <<"P", "a", "c", "k", "a", "g", "e", "d", " ", "D", "e", "s", "s", "e", "r", "t", "s">>,
                Protein |-> 50]
          [] k = "sugar" ->
               [key |-> <<"s", "u", "g", "a", "r">>,
                ingr |-> <<"s", "u", "g", "a", "r">>,
                is_veg |-> TRUE, is_vegan |-> TRUE,
                Dosha_Vata |-> 3, Dosha_Pitta |-> 0, Dosha_Kapha |-> 10,
                Calories |-> 130,
                Food_Item |-> <<"S", "u", "g", "a", "r">>,
                Category |-> <<"S", "p", "i", "c", "e", "s", ",", " ", "I", "n", "s", "t", "a", "n", "t">>,
                Protein |-> 0]
          [] k = "egg" ->
               [key |-> <<"e", "g", "g">>,
                ingr |-> <<"e", "g", "g">>,
                is_veg |-> FALSE, is_vegan |-> FALSE,
                Dosha_Vata |-> -10, Dosha_Pitta |-> 10, Dosha_Kapha |-> 0,
                Calories |-> 155,
                Food_Item |-> <<"E", "g", "g">>,
                Category |-> <<"D", "a", "i", "r", "y">>,
                Protein |-> 126]
          [] k = "oil" ->
               [key |-> <<"c", "a", "n", "n", "e", "d", " ", "o", "i", "l">>,
                ingr |-> <<"o", "i", "l">>,
                is_veg |-> TRUE, is_vegan |-> TRUE,
                Dosha_Vata |-> -10, Dosha_Pitta |-> 10, Dosha_Kapha |-> 10,
                Calories |-> 884,
                Food_Item |-> <<"C", "a", "n", "n", "e", "d", " ", "O", "i", "l">>,
                Category |-> <<"F", "a", "t", "s">>,
                Protein |-> 0]
          [] k = "transfat" ->
               [key |-> <<"t", "r", "a", "n", "s", "f", "a", "t">>,
                ingr |-> <<"o", "i", "l">>,
                is_veg |-> TRUE, is_vegan |-> TRUE,
                Dosha_Vata |-> 10, Dosha_Pitta |-> 10, Dosha_Kapha |-> 10,
                Calories |-> 717,
                Food_Item |-> <<"T", "r", "a", "n", "s", "f", "a", "t">>,
                Category |-> <<"F", "a", "t", "s">>,
                Protein |-> 0]]

AllCols ==
    {"Food_Item", "Category", "food_key", "Ingredients", "is_veg", "is_vegan",
     "Dosha_Vata", "Dosha_Pitta", "Dosha_Kapha", "Calories", "Protein"}

\* the row of catalog cat with index label r
Row(cat, r) == FoodKinds[cat.rows[r]]

\* food_df.copy(): the frame of all index labels, in catalog order
FullFrame(cat) == [i \in 1..Len(cat.rows) |-> i]

\* df[mask]
Keep(df, P(_)) == SelectSeq(df, P)

\* a stage's outcome: the frame it returns, or the exception it raises
Ok(df) == [err |-> FALSE, df |-> df]
Raise == [err |-> TRUE, df |-> <<>>]

\* run the next stage on the frame of an outcome; an exception propagates
Then(res, F(_)) == IF res.err THEN res ELSE F(res.df)

-----------------------------------------------------------------------------
(* The filter stages                                                       *)

\* the allergy filter, had it matched against Food_Item
filter_by_allergies_OnName(cat, df, allergies) ==
    IF Falsy(allergies) THEN Ok(df)
    ELSE LET allergen_list == parse_restrictions(allergies)
             pattern == create_regex_pattern(allergen_list)
         IN  IF allergen_list = <<>> THEN Ok(df)
             ELSE IF "Food_Item" \notin cat.cols THEN Raise
             ELSE Ok(Keep(df, LAMBDA r :
                    ~StrContains(Lower(Row(cat, r).Food_Item), pattern)))

filter_by_allergies(cat, df, allergies) ==
    IF Falsy(allergies) THEN Ok(df)
    ELSE LET allergen_list == parse_restrictions(allergies)
             pattern == create_regex_pattern(allergen_list)
         IN  IF allergen_list = <<>> THEN Ok(df)
             ELSE IF "food_key" \notin cat.cols THEN Raise
             ELSE Ok(Keep(df, LAMBDA r :
                    /\ ~StrContains(Row(cat, r).key, pattern)
                    /\ ("Ingredients" \in cat.cols =>
                            ~StrContains(Lower(Row(cat, r).ingr), pattern))))

filter_by_dietary_restrictions(cat, df, restrictions) ==
    IF Falsy(restrictions) THEN Ok(df)
    ELSE LET restriction_list == parse_restrictions(restrictions)
             pattern == create_regex_pattern(restriction_list)
         IN  IF restriction_list = <<>> THEN Ok(df)
             ELSE IF "food_key" \notin cat.cols THEN Raise
             ELSE Ok(Keep(df, LAMBDA r : ~StrContains(Row(cat, r).key, pattern)))

\* Food_preference is None or a FoodPreferenceEnum, whose value is lower case
filter_by_diet_preference(cat, df, food_pref) ==
    IF food_pref = "None" THEN Ok(df)
    ELSE IF food_pref = "vegan" /\ "is_vegan" \in cat.cols
         THEN Ok(Keep(df, LAMBDA r : Row(cat, r).is_vegan = TRUE))
    ELSE IF food_pref = "vegetarian" /\ "is_veg" \in cat.cols
         THEN Ok(Keep(df, LAMBDA r : Row(cat, r).is_veg = TRUE))
    ELSE Ok(df)

\* target_dosha: None, or a name
NoDosha == [none |-> TRUE, name |-> ""]
Dosha(n) == [none |-> FALSE, name |-> n]
DoshaFalsy(d) == d.none \/ d.name = ""

\* str.capitalize() on the dosha names the model draws
Capitalize(n) ==
    CASE n = "vata" -> "Vata" [] n = "VATA" -> "Vata"
      [] n = "pitta" -> "Pitta" [] n = "kapha" -> "Kapha"
      [] n = "ether" -> "Ether" [] OTHER -> n

\* f"Dosha_{target_dosha.capitalize()}"
DoshaCol(n) ==
    CASE Capitalize(n) = "Vata" -> "Dosha_Vata"
      [] Capitalize(n) = "Pitta" -> "Dosha_Pitta"
      [] Capitalize(n) = "Kapha" -> "Dosha_Kapha"
      [] OTHER -> "Dosha_?"

\* df[dosha_col] of one row
Effect(cat, r, col) ==
    CASE col = "Dosha_Vata" -> Row(cat, r).Dosha_Vata
      [] col = "Dosha_Pitta" -> Row(cat, r).Dosha_Pitta
      [] col = "Dosha_Kapha" -> Row(cat, r).Dosha_Kapha

\* the dosha filter, had its lenient band stopped at neutral foods
filter_by_dosha_balance_NoMild(cat, df, target_dosha, strictness) ==
    IF DoshaFalsy(target_dosha) THEN Ok(df)
    ELSE LET dosha_col == DoshaCol(target_dosha.name)
         IN  IF dosha_col \notin cat.cols THEN Ok(df)
             ELSE IF strictness >= 8
                  THEN Ok(Keep(df, LAMBDA r : Effect(cat, r, dosha_col) < 0))
             ELSE Ok(Keep(df, LAMBDA r : Effect(cat, r, dosha_col) <= 0))

\* the dosha filter, had its lenient band let every food through
filter_by_dosha_balance_AllLenient(cat, df, target_dosha, strictness) ==
    IF DoshaFalsy(target_dosha) THEN Ok(df)
    ELSE LET dosha_col == DoshaCol(target_dosha.name)
         IN  IF dosha_col \notin cat.cols THEN Ok(df)
             ELSE IF strictness >= 8
                  THEN Ok(Keep(df, LAMBDA r : Effect(cat, r, dosha_col) < 0))
             ELSE IF strictness >= 5
                  THEN Ok(Keep(df, LAMBDA r : Effect(cat, r, dosha_col) <= 0))
             ELSE Ok(df)

\* strictness and effects in tenths: 0.8 is 8, 0.5 is 5
filter_by_dosha_balance(cat, df, target_dosha, strictness) ==
    IF DoshaFalsy(target_dosha) THEN Ok(df)
    ELSE LET dosha_col == DoshaCol(target_dosha.name)
         IN  IF dosha_col \notin cat.cols THEN Ok(df)
             ELSE IF strictness >= 8
                  THEN Ok(Keep(df, LAMBDA r : Effect(cat, r, dosha_col) < 0))
             ELSE IF strictness >= 5
                  THEN Ok(Keep(df, LAMBDA r : Effect(cat, r, dosha_col) <= 0))
             ELSE Ok(Keep(df, LAMBDA r : Effect(cat, r, dosha_col) <= 5))

condition_restrictions ==
    <<
      [condition |-> <<"d", "i", "a", "b", "e", "t", "e", "s">>,
       avoid |-> {<<"s", "u", "g", "a", "r">>,
                  <<"h", "o", "n", "e", "y">>,
                  <<"j", "a", "g", "g", "e", "r", "y">>,
                  <<"s", "w", "e", "e", "t">>}],
      [condition |-> <<"h", "y", "p", "e", "r", "t", "e", "n", "s", "i", "o", "n">>,
       avoid |-> {<<"s", "a", "l", "t">>,
                  <<"s", "o", "d", "i", "u", "m">>,
                  <<"p", "i", "c", "k", "l", "e">>}],
      [condition |-> <<"h", "e", "a", "r", "t", " ", "d", "i", "s", "e", "a", "s", "e">>,
       avoid |-> {<<"s", "a", "t", "u", "r", "a", "t", "e", "d", " ", "f", "a", "t">>,
                  <<"t", "r", "a", "n", "s", " ", "f", "a", "t">>,
                  <<"c", "h", "o", "l", "e", "s", "t", "e", "r", "o", "l">>}],
      [condition |-> <<"k", "i", "d", "n", "e", "y", " ", "d", "i", "s", "e", "a", "s", "e">>,
       avoid |-> {<<"p", "r", "o", "t", "e", "i", "n">>,
                  <<"s", "o", "d", "i", "u", "m">>,
                  <<"p", "o", "t", "a", "s", "s", "i", "u", "m">>}],
      [condition |-> <<"i", "b", "s">>,
       avoid |-> {<<"s", "p", "i", "c", "y">>,
                  <<"h", "i", "g", "h", " ", "f", "i", "b", "e", "r">>,
                  <<"d", "a", "i", "r", "y">>}],
      [condition |-> <<"g", "o", "u", "t">>,
       avoid |-> {<<"p", "u", "r", "i", "n", "e">>,
                  <<"o", "r", "g", "a", "n", " ", "m", "e", "a", "t">>,
                  <<"a", "l", "c", "o", "h", "o", "l">>}]
    >>

\* AvoidFoods, had a table entry matched only a condition that contains it
AvoidFoods_KeyInTerm(conditions) ==
    UNION {condition_restrictions[e].avoid :
             e \in {e \in DOMAIN condition_restrictions :
                      \E c \in 1..Len(conditions) :
                         IsSubstring(condition_restrictions[e].condition,
                                     Strip(Lower(conditions[c])))}}

\* the avoid-terms of every table entry a condition matches, either way round
AvoidFoods(conditions) ==
    UNION {condition_restrictions[e].avoid :
             e \in {e \in DOMAIN condition_restrictions :
                      \E c \in 1..Len(conditions) :
                         LET condition_lower == Strip(Lower(conditions[c]))
                             health_condition == condition_restrictions[e].condition
                         IN  \/ IsSubstring(condition_lower, health_condition)
                             \/ IsSubstring(health_condition, condition_lower)}}

\* list(avoid_foods): the set in some order
RECURSIVE SetToSeq(_)
SetToSeq(S) ==
    IF S = {} THEN <<>>
    ELSE LET x == CHOOSE x \in S : TRUE IN <<x>> \o SetToSeq(S \ {x})

filter_by_health_conditions(cat, df, health_conditions) ==
    IF Falsy(health_conditions) THEN Ok(df)
    ELSE LET conditions == parse_restrictions(health_conditions)
             avoid_foods == AvoidFoods(conditions)
             pattern == create_regex_pattern(SetToSeq(avoid_foods))
         IN  IF avoid_foods = {} THEN Ok(df)
             ELSE IF "food_key" \notin cat.cols THEN Raise
             ELSE Ok(Keep(df, LAMBDA r : ~StrContains(Row(cat, r).key, pattern)))

-----------------------------------------------------------------------------
(* filter_foods_for_user                                                   *)

\* the floor of candidates under which the relaxed pass runs
MIN_VARIETY == 20

\* the strictness of the relaxed pass, and the one above which it may run
RELAXED_STRICTNESS == 3

\* the five stages, in the order of the code
StrictPass(cat, prof, target_dosha, strictness) ==
    LET a == filter_by_allergies(cat, FullFrame(cat), prof.Allergies)
        h == Then(a, LAMBDA df : filter_by_health_conditions(cat, df, prof.Health_Conditions))
        p == Then(h, LAMBDA df : filter_by_diet_preference(cat, df, prof.Food_preference))
        d == Then(p, LAMBDA df : filter_by_dietary_restrictions(cat, df, prof.Dietary_Restrictions))
    IN  Then(d, LAMBDA df :
            IF DoshaFalsy(target_dosha) THEN Ok(df)
            ELSE filter_by_dosha_balance(cat, df, target_dosha, strictness))

\* RelaxedPass, had it started from the full catalog without the allergy filter
RelaxedPass_NoAllergy(cat, prof, target_dosha) ==
    LET p == filter_by_diet_preference(cat, FullFrame(cat), prof.Food_preference)
    IN  Then(p, LAMBDA df :
            IF DoshaFalsy(target_dosha) THEN Ok(df)
            ELSE filter_by_dosha_balance(cat, df, target_dosha, RELAXED_STRICTNESS))

\* RelaxedPass, had it added the relaxed rows to the frame instead of replacing it
RelaxedPass_Concat(cat, prof, target_dosha) ==
    LET a == filter_by_allergies(cat, FullFrame(cat), prof.Allergies)
        p == Then(a, LAMBDA df : filter_by_diet_preference(cat, df, prof.Food_preference))
    IN  Then(p, LAMBDA df : Ok(df \o df))

\* RelaxedPass, had it kept the dietary-restriction stage
RelaxedPass_Restricted(cat, prof, target_dosha) ==
    LET a == filter_by_allergies(cat, FullFrame(cat), prof.Allergies)
        p == Then(a, LAMBDA df : filter_by_diet_preference(cat, df, prof.Food_preference))
        d == Then(p, LAMBDA df : filter_by_dietary_restrictions(cat, df, prof.Dietary_Restrictions))
    IN  Then(d, LAMBDA df :
            IF DoshaFalsy(target_dosha) THEN Ok(df)
            ELSE filter_by_dosha_balance(cat, df, target_dosha, RELAXED_STRICTNESS))

\* RelaxedPass, had its dosha filter run in the strictest band
RelaxedPass_Stricter(cat, prof, target_dosha) ==
    LET a == filter_by_allergies(cat, FullFrame(cat), prof.Allergies)
        p == Then(a, LAMBDA df : filter_by_diet_preference(cat, df, prof.Food_preference))
    IN  Then(p, LAMBDA df :
            IF DoshaFalsy(target_dosha) THEN Ok(df)
            ELSE filter_by_dosha_balance(cat, df, target_dosha, 9))

\* the relaxed pass: from the full catalog, the critical filters only
RelaxedPass(cat, prof, target_dosha) ==
    LET a == filter_by_allergies(cat, FullFrame(cat), prof.Allergies)
        p == Then(a, LAMBDA df : filter_by_diet_preference(cat, df, prof.Food_preference))
    IN  Then(p, LAMBDA df :
            IF DoshaFalsy(target_dosha) THEN Ok(df)
            ELSE filter_by_dosha_balance(cat, df, target_dosha, RELAXED_STRICTNESS))

\* Relaxes, had the floor been tested with <=
Relaxes_AtFloor(strict, strictness) ==
    Len(strict.df) <= MIN_VARIETY /\ strictness > RELAXED_STRICTNESS

\* Relaxes, had the strictness been tested against the moderate band
Relaxes_Moderate(strict, strictness) ==
    Len(strict.df) < MIN_VARIETY /\ strictness >= 5

\* the relaxed pass runs
Relaxes(strict, strictness) ==
    Len(strict.df) < MIN_VARIETY /\ strictness > RELAXED_STRICTNESS

\* df['Calories'] of one row; a row's portion varies with its place
Calories(cat, r) == Row(cat, r).Calories + 10 * ((r - 1) \div 2)

\* head(m) with no sort before it: the first m rows in frame order
RECURSIVE HeadInOrder(_, _, _)
HeadInOrder(cat, S, m) ==
    IF m <= 0 \/ S = {} THEN {<<>>}
    ELSE LET x == CHOOSE x \in S : \A y \in S : x <= y
         IN  {<<x>> \o q : q \in HeadInOrder(cat, S \ {x}, m - 1)}

\* df.sort_values('Calories').head(m): the default sort is not stable, so
\* rows of equal calories come out in any order
RECURSIVE SortedHeads(_, _, _)
SortedHeads(cat, S, m) ==
    IF m <= 0 \/ S = {} THEN {<<>>}
    ELSE LET least == {x \in S : \A y \in S : Calories(cat, x) <= Calories(cat, y)}
         IN  UNION {{<<x>> \o q : q \in SortedHeads(cat, S \ {x}, m - 1)} : x \in least}

\* step 5, the item cap on the outcome pre of the stages.  An outcome: err
\* (ValidationError raised), strict (the frame after the five stages),
\* relaxed (the relaxed pass ran), precap (the frame before the item cap),
\* df (the frame returned)
ItemCap(cat, strict, relaxed, pre, max_items) ==
    LET failed == [err |-> TRUE, strict |-> <<>>, relaxed |-> FALSE,
                   precap |-> <<>>, df |-> <<>>]
    IN  IF pre.err THEN {failed}
        ELSE IF Len(pre.df) > max_items
             THEN IF "Calories" \notin cat.cols THEN {failed}
                  ELSE {[err |-> FALSE, strict |-> strict.df, relaxed |-> relaxed,
                         precap |-> pre.df, df |-> q] :
                            q \in SortedHeads(cat, Range(pre.df), max_items)}
             ELSE {[err |-> FALSE, strict |-> strict.df, relaxed |-> relaxed,
                    precap |-> pre.df, df |-> pre.df]}

\* step 4, the variety floor on the outcome strict of the five stages, and
\* then the cap
VarietyFloor(cat, prof, target_dosha, max_items, strictness, strict) ==
    LET relaxed == ~strict.err /\ Relaxes(strict, strictness)
    IN  ItemCap(cat, strict, relaxed,
                IF relaxed THEN RelaxedPass(cat, prof, target_dosha) ELSE strict,
                max_items)

\* every outcome filter_foods_for_user can have
FilterOutcomes(cat, prof, target_dosha, max_items, strictness) ==
    VarietyFloor(cat, prof, target_dosha, max_items, strictness,
                 StrictPass(cat, prof, target_dosha, strictness))

-----------------------------------------------------------------------------
(* The calls of filter_foods_for_user the model draws                      *)

\* the longest run of one food kind in a catalog
MaxFill == 20

\* the small item cap of the calls that reach the cap
SmallCap == 2

\* max_items of generate_meal_plan_advanced
PLANNER_MAX_ITEMS == 200

Rep(k, n) == [i \in 1..n |-> k]

BaseKinds == {"peanut", "cake", "egg"}

FillKinds == {"rice", "sugar"}

\* nothing or one food, then nothing or a long run of one kind
BaseRows == {<<>>} \cup {<<k>> : k \in BaseKinds}

CatalogRows ==
    {b \o f :
        b \in BaseRows,
        f \in {<<>>} \cup {Rep(k, n) : k \in FillKinds, n \in (MIN_VARIETY - 1)..MaxFill}}

\* the optional columns a catalog may lack
OptionalColChoices ==
    {AllCols, AllCols \ {"Ingredients"}, AllCols \ {"is_veg", "is_vegan"}}

\* a catalog that lacks a column the code reads by name
BrokenColChoices == {AllCols \ {"food_key"}, AllCols \ {"Calories"}}

Catalogs ==
    [rows : CatalogRows, cols : OptionalColChoices]
        \cup [rows : {b \o Rep("rice", 2) : b \in BaseRows}, cols : BrokenColChoices]

AllergyChoices ==
    {NoneText,
     Text(<<"N", "u", "t", ",", " ", "e", "g", "g">>),
     Text(<<"p", "e", "a", " ", "n", "u", "t">>)}

HealthChoices == {NoneText, Text(<<"D", "i", "a", "b", "e", "t", "e", "s">>)}

RestrictionChoices == {NoneText, Text(<<"c", "a", "k", "e">>)}

PreferenceChoices == {"None", "vegan", "vegetarian", "non_vegetarian"}

Profiles ==
    [Allergies : AllergyChoices, Health_Conditions : HealthChoices,
     Food_preference : PreferenceChoices, Dietary_Restrictions : RestrictionChoices]

DoshaChoices == {NoDosha, Dosha("vata"), Dosha("ether")}

StrictnessChoices == {3, 4, 7, 9}

MaxItemsChoices == {SmallCap, PLANNER_MAX_ITEMS}

NoResult ==
    [err |-> FALSE, strict |-> <<>>, relaxed |-> FALSE, precap |-> <<>>, df |-> <<>>]

\* no call of generate_meal_plan_advanced is under way
PlanIdle ==
    /\ preq = <<>>
    /\ ppc = "idle"
    /\ pcand = <<>>
    /\ pidx = 0
    /\ ptried = <<>>
    /\ poutcomes = <<>>
    /\ pplan = <<>>
    /\ pllm = 0
    /\ pret = <<>>
    /\ psource = "none"

\* no single function is under call
UnitIdle ==
    /\ ufn = "none"
    /\ uarg = <<>>
    /\ upc = "idle"
    /\ uout = <<>>

\* no request runs against a shared catalog
SharedIdle ==
    /\ heap = <<>>
    /\ reqs = <<>>

\* no call of filter_foods_for_user is under way
FilterIdle ==
    /\ fcat = <<>>
    /\ fprof = <<>>
    /\ fdosha = NoDosha
    /\ fmax = 0
    /\ fstrict = 0
    /\ fpc = "idle"
    /\ fres = NoResult

FilterInit ==
    /\ PlanIdle
    /\ UnitIdle
    /\ SharedIdle
    /\ fcat \in Catalogs
    /\ fprof \in Profiles
    /\ fdosha \in DoshaChoices
    /\ fmax \in MaxItemsChoices
    /\ fstrict \in StrictnessChoices
    /\ fpc = "call"
    /\ fres = NoResult

\* one call of filter_foods_for_user: it returns a frame, or raises
\* ValidationError
FilterCall ==
    /\ fpc = "call"
    /\ \E out \in FilterOutcomes(fcat, fprof, fdosha, fmax, fstrict) :
          /\ fres' = out
          /\ fpc' = IF out.err THEN "raised" ELSE "returned"
    /\ UNCHANGED <<fcat, fprof, fdosha, fmax, fstrict>>
    /\ UNCHANGED pvars
    /\ UNCHANGED <<uvars, hvars>>

FilterNext == FilterCall

SpecFilter == FilterInit /\ [][FilterNext]_vars

-----------------------------------------------------------------------------
(* Properties of filter_foods_for_user                                     *)

\* the parsed terms of a free-text field
Terms(x) == Range(parse_restrictions(x))

\* the rows of the catalog the returned frame holds
Returned == Range(fres.df)

\* C1: no returned row has a food_key (or lowercased Ingredients text, when
\* the column exists) that contains a parsed allergy term, and under a vegan
\* (vegetarian) preference every returned row is vegan (vegetarian) when the
\* flag column exists; with or without the relaxed pass.
C1_AllergyAndDietKept ==
    fpc = "returned" =>
        LET allergens == Terms(fprof.Allergies)
        IN
        \A r \in Returned :
            /\ \A t \in allergens :
                  /\ ~IsSubstring(t, Row(fcat, r).key)
                  /\ ("Ingredients" \in fcat.cols =>
                        ~IsSubstring(t, Lower(Row(fcat, r).ingr)))
            /\ (fprof.Food_preference = "vegan" /\ "is_vegan" \in fcat.cols =>
                  Row(fcat, r).is_vegan)
            /\ (fprof.Food_preference = "vegetarian" /\ "is_veg" \in fcat.cols =>
                  Row(fcat, r).is_veg)

\* the relaxed pass ran on a catalog that holds an allergen row and a
\* non-vegan row, for a vegan user with allergies, and returned something
C1_Witness ==
    /\ fpc = "returned"
    /\ fres.relaxed
    /\ fres.df # <<>>
    /\ fprof.Food_preference = "vegan"
    /\ "is_vegan" \in fcat.cols
    /\ \E r \in DOMAIN fcat.rows : ~Row(fcat, r).is_vegan
    /\ \E r \in DOMAIN fcat.rows : \E t \in Terms(fprof.Allergies) :
          IsSubstring(t, Row(fcat, r).key)

\* C8: every returned row is a row of the input catalog, and is returned
\* once: nothing is introduced, on the strict path, the relaxed path and
\* after the item cap.
C8_SubsetOfCatalog ==
    fpc = "returned" =>
        /\ \A i \in DOMAIN fres.df : fres.df[i] \in DOMAIN fcat.rows
        /\ \A i, j \in DOMAIN fres.df : i # j => fres.df[i] # fres.df[j]
        /\ \A i \in DOMAIN fres.precap : fres.precap[i] \in DOMAIN fcat.rows
        /\ \A i, j \in DOMAIN fres.precap : i # j => fres.precap[i] # fres.precap[j]

\* the relaxed pass ran and the item cap cut its frame
C8_Witness ==
    /\ fpc = "returned"
    /\ fres.relaxed
    /\ Len(fres.precap) > fmax
    /\ Len(fres.df) = fmax

\* the keys a health condition or a dietary restriction of the user excludes
SoftTerms ==
    AvoidFoods(parse_restrictions(fprof.Health_Conditions))
        \cup Terms(fprof.Dietary_Restrictions)

SoftExcluded(r, terms) == \E t \in terms : IsSubstring(t, Row(fcat, r).key)

\* C9: when the five stages leave at least 20 rows, or dosha_strictness is
\* at most 0.3, the relaxed pass does not run: the frame before the cap is
\* the five-stage frame, and no row excluded by a health condition or a
\* dietary restriction is in it.
C9_NoRelaxationAtFloor ==
    fpc = "returned" /\ (Len(fres.strict) >= MIN_VARIETY \/ fstrict <= RELAXED_STRICTNESS) =>
        /\ ~fres.relaxed
        /\ fres.precap = fres.strict
        /\ LET terms == SoftTerms
           IN  \A r \in Range(fres.precap) : ~SoftExcluded(r, terms)

\* exactly 20 rows are left after a dietary restriction removed a row
C9_Witness ==
    /\ fpc = "returned"
    /\ fstrict > RELAXED_STRICTNESS
    /\ Len(fres.strict) = MIN_VARIETY
    /\ Len(fcat.rows) > MIN_VARIETY
    /\ \E r \in DOMAIN fcat.rows : SoftExcluded(r, SoftTerms)
    /\ ~fres.relaxed

\* C10, as claimed: with dosha_strictness > 0.3 at least 20 candidates are
\* returned (before the item cap).
C10_FloorAlwaysMet ==
    fpc = "returned" /\ fstrict > RELAXED_STRICTNESS => Len(fres.precap) >= MIN_VARIETY

\* the row passes the filters that are never relaxed: allergy, diet
\* preference, and the dosha filter at its most lenient
Critical(r, pattern) ==
    /\ ~StrContains(Row(fcat, r).key, pattern)
    /\ ("Ingredients" \in fcat.cols => ~StrContains(Lower(Row(fcat, r).ingr), pattern))
    /\ (fprof.Food_preference = "vegan" /\ "is_vegan" \in fcat.cols => Row(fcat, r).is_vegan)
    /\ (fprof.Food_preference = "vegetarian" /\ "is_veg" \in fcat.cols => Row(fcat, r).is_veg)
    /\ (~DoshaFalsy(fdosha) /\ DoshaCol(fdosha.name) \in fcat.cols =>
          Effect(fcat, r, DoshaCol(fdosha.name)) <= 5)

\* C10, amended: with dosha_strictness > 0.3 the frame before the cap holds
\* at least 20 rows whenever at least 20 rows of the catalog pass the
\* allergy, diet-preference and lenient dosha filters, and otherwise holds
\* exactly those rows; the call raises only on a catalog that lacks a
\* column, never for want of candidates.
C10_FloorWhenAvailable ==
    /\ fpc = "returned" /\ fstrict > RELAXED_STRICTNESS =>
          \/ Len(fres.precap) >= MIN_VARIETY
          \/ LET pattern == create_regex_pattern(parse_restrictions(fprof.Allergies))
             IN  Range(fres.precap) = {r \in DOMAIN fcat.rows : Critical(r, pattern)}
    /\ fpc = "raised" => ~({"food_key", "Calories"} \subseteq fcat.cols)

\* the relaxed pass ran, brought rows back, and still fewer than 20 are left
C10_Witness ==
    /\ fpc = "returned"
    /\ fstrict > RELAXED_STRICTNESS
    /\ fres.relaxed
    /\ Len(fres.strict) < Len(fres.precap)
    /\ Len(fres.precap) < MIN_VARIETY

-----------------------------------------------------------------------------
(* Plans: the JSON values the planner parses, validates and returns        *)

\* the most days a request asks for
MaxDays == 3

DayKeys == 1..MaxDays

\* a meal item
Item(name, calories) == [name |-> name, calories |-> calories]

\* a day's value under a meal key: no such key, a value that is no list, a list
AbsentMeal == [tag |-> "absent", items |-> <<>>]
NonListMeal == [tag |-> "nonlist", items |-> <<>>]
Meal(items) == [tag |-> "list", items |-> items]

\* a plan's value under a day key: no such key, a value that is no dict, a dict
AbsentDay ==
    [tag |-> "absent", breakfast |-> AbsentMeal, lunch |-> AbsentMeal,
     dinner |-> AbsentMeal, snacks |-> AbsentMeal]
NonDictDay == [AbsentDay EXCEPT !.tag = "nondict"]
Day(b, l, d, s) ==
    [tag |-> "dict", breakfast |-> b, lunch |-> l, dinner |-> d, snacks |-> s]

\* the value of totals under a day key: no such key, a string, a number,
\* the float NaN (json.loads reads the literal NaN), the bool True
AbsentTotal == [tag |-> "absent", val |-> 0]
StrTotal == [tag |-> "str", val |-> 0]
Num(n) == [tag |-> "num", val |-> n]
NaNTotal == [tag |-> "nan", val |-> 0]
TrueTotal == [tag |-> "bool", val |-> 1]

\* isinstance(total_cal, (int, float)): bool is a subclass of int
IsIntOrFloat(total_cal) == total_cal.tag \in {"num", "nan", "bool"}

\* total_cal <= 0: every comparison with NaN is false
NotAboveZero(total_cal) == total_cal.tag # "nan" /\ total_cal.val <= 0

\* the plan's value under "totals"
NoTotals == [tag |-> "absent", of |-> [d \in DayKeys |-> AbsentTotal]]
NonDictTotals == [NoTotals EXCEPT !.tag = "nondict"]
Totals(f) == [tag |-> "dict", of |-> f]

\* a plan: day_1.. and totals, the method of its summary ("" without one),
\* and whether it carries an "error" key
PlanOf(day, totals, method, error) ==
    [tag |-> "dict", day |-> day, totals |-> totals, method |-> method, error |-> error]

NoPlan == [tag |-> "none", day |-> [d \in DayKeys |-> AbsentDay], totals |-> NoTotals,
           method |-> "", error |-> FALSE]

\* plan[day_key], absent beyond the keys a plan can hold
DayAt(plan, d) == IF d \in DOMAIN plan.day THEN plan.day[d] ELSE AbsentDay

TotalAt(plan, d) == IF d \in DOMAIN plan.totals.of THEN plan.totals.of[d] ELSE AbsentTotal

MealOf(day_data, meal) ==
    CASE meal = "breakfast" -> day_data.breakfast
      [] meal = "lunch" -> day_data.lunch
      [] meal = "dinner" -> day_data.dinner

\* the required meals, had lunch been left out
required_meals_NoLunch == {"breakfast", "dinner"}

required_meals == {"breakfast", "lunch", "dinner"}

\* MealPlanner._validate_plan
_validate_plan(plan, expected_days) ==
    IF plan.tag # "dict" THEN FALSE
    ELSE /\ \A d \in 1..expected_days :
               LET day_data == DayAt(plan, d)
               IN  /\ day_data.tag # "absent"
                   /\ day_data.tag = "dict"
                   /\ \A meal \in required_meals :
                         /\ MealOf(day_data, meal).tag # "absent"
                         /\ MealOf(day_data, meal).tag = "list"
                         /\ MealOf(day_data, meal).items # <<>>
         /\ plan.totals.tag # "absent" =>
               /\ plan.totals.tag = "dict"
               /\ \A d \in 1..expected_days :
                     TotalAt(plan, d).tag # "absent" =>
                         /\ IsIntOrFloat(TotalAt(plan, d))
                         /\ ~NotAboveZero(TotalAt(plan, d))

-----------------------------------------------------------------------------
(* MealPlanner._generate_fallback_plan                                     *)

\* dosha_info["dosha"]: no such key, None, or a name
MissingDosha == [tag |-> "missing", name |-> ""]
NullDosha == [tag |-> "none", name |-> ""]
NamedDosha(n) == [tag |-> "str", name |-> n]

\* dosha_dict.get("dosha")
GetDosha(dosha_info) ==
    IF dosha_info.dosha.tag = "str" THEN Dosha(dosha_info.dosha.name) ELSE NoDosha

\* int(daily_calories * fraction), had it rounded to the nearest integer
IntOfShare_Rounded(daily_calories, hundredths) == (daily_calories * hundredths + 50) \div 100

\* int(daily_calories * fraction), fraction in hundredths, daily_calories >= 0
IntOfShare(daily_calories, hundredths) == (daily_calories * hundredths) \div 100

\* dosha_info.get('dosha', 'vata').lower() raises on None
FallbackRaises(dosha_info) == dosha_info.dosha.tag = "none"

\* the except branch: the ultra-simple plan
MinimalPlan ==
    PlanOf([d \in DayKeys |->
               IF d = 1
               THEN Day(Meal(<<Item("Simple breakfast", 400)>>),
                        Meal(<<Item("Simple lunch", 600)>>),
                        Meal(<<Item("Simple dinner", 500)>>),
                        AbsentMeal)
               ELSE AbsentDay],
           Totals([d \in DayKeys |-> IF d = 1 THEN Num(1500) ELSE AbsentTotal]),
           "", TRUE)

\* daily_meals of one day
FallbackDay(daily_calories) ==
    Day(Meal(<<Item("Ayurvedic Breakfast Bowl", IntOfShare(daily_calories, 25))>>),
        Meal(<<Item("Balanced Vegetarian Meal", IntOfShare(daily_calories, 40))>>),
        Meal(<<Item("Light Evening Meal", IntOfShare(daily_calories, 30))>>),
        Meal(<<Item("Herbal Tea with Nuts", IntOfShare(daily_calories, 5))>>))

_generate_fallback_plan(dosha_info, daily_calories, days) ==
    IF FallbackRaises(dosha_info) THEN MinimalPlan
    ELSE PlanOf([d \in DayKeys |-> IF d <= days THEN FallbackDay(daily_calories) ELSE AbsentDay],
                Totals([d \in DayKeys |-> IF d <= days THEN Num(daily_calories) ELSE AbsentTotal]),
                "fallback_template", FALSE)

-----------------------------------------------------------------------------
(* The LLM's answers, and MealPlanner._call_llm_and_parse                  *)

\* a day the validator accepts, and one whose lunch is an empty list
GoodDay ==
    Day(Meal(<<Item("dish", 500)>>), Meal(<<Item("dish", 800)>>),
        Meal(<<Item("dish", 600)>>), AbsentMeal)
EmptyLunchDay == [GoodDay EXCEPT !.lunch = Meal(<<>>)]

\* the plans the LLM writes: n day keys, the last day as given, and totals
\* absent, positive, or zero for day_1
LLMPlan(n, last_day, totals) ==
    PlanOf([d \in DayKeys |->
               IF d < n THEN GoodDay ELSE IF d = n THEN last_day ELSE AbsentDay],
           CASE totals = "absent" -> NoTotals
             [] totals = "good" ->
                  Totals([d \in DayKeys |-> IF d <= n THEN Num(1900) ELSE AbsentTotal])
             [] totals = "zero" ->
                  Totals([d \in DayKeys |-> IF d = 1 THEN Num(0) ELSE AbsentTotal]),
           "", FALSE)

LLMPlans ==
    {LLMPlan(n, GoodDay, "good") : n \in DayKeys}
        \cup {LLMPlan(n, EmptyLunchDay, "absent") : n \in DayKeys}
        \cup {LLMPlan(MaxDays, GoodDay, "absent"), LLMPlan(MaxDays, GoodDay, "zero")}

\* an answer is a transport error, or a text: a sequence of pieces, each
\* prose without braces, a code fence, a lone brace, or the JSON text of a plan
Prose == [t |-> "prose", plan |-> NoPlan]
Fence == [t |-> "fence", plan |-> NoPlan]
OpenBrace == [t |-> "open", plan |-> NoPlan]
CloseBrace == [t |-> "close", plan |-> NoPlan]
Obj(p) == [t |-> "obj", plan |-> p]

TransportError == [kind |-> "error", text |-> <<>>]
Answer(text) == [kind |-> "text", text |-> text]

Responses ==
    {TransportError, Answer(<<Prose>>), Answer(<<Prose, OpenBrace, Prose>>),
     Answer(<<Obj(LLMPlan(1, GoodDay, "absent")), Prose, Obj(LLMPlan(1, GoodDay, "absent"))>>)}
        \cup {Answer(<<Prose, Fence, Obj(p), Fence>>) : p \in LLMPlans}

\* the outcome of a parse: failed, or a value
ParseFailed == [ok |-> FALSE, plan |-> NoPlan]
Parsed(p) == [ok |-> TRUE, plan |-> p]

\* MealPlanner._extract_json_from_text: the fences removed, then the span
\* from the first "{" to the last "}" of the text; <<>> when it raises
_extract_json_from_text(text) ==
    LET t == SelectSeq(text, LAMBDA s : s.t # "fence")
        opens == {k \in DOMAIN t : t[k].t \in {"open", "obj"}}
        first == CHOOSE k \in opens : \A m \in opens : k <= m
        closes == {k \in DOMAIN t : t[k].t \in {"close", "obj"} /\ k >= first}
        last == CHOOSE k \in closes : \A m \in closes : m <= k
    IN  IF opens = {} THEN <<>>
        ELSE IF closes = {} THEN <<>>
        ELSE SubSeq(t, first, last)

\* json.loads: the span parses when it is the text of one JSON object
JsonLoads(span) ==
    IF Len(span) = 1 /\ span[1].t = "obj" THEN Parsed(span[1].plan) ELSE ParseFailed

\* MealPlanner._call_llm_and_parse on an answer: "transport", "unparseable"
\* (both raise LLMError), or "parsed" with the plan
_call_llm_and_parse(resp) ==
    IF resp.kind = "error" THEN [kind |-> "transport", plan |-> NoPlan]
    ELSE LET json_text == _extract_json_from_text(resp.text)
         IN  IF json_text = <<>> \/ ~JsonLoads(json_text).ok
             THEN [kind |-> "unparseable", plan |-> NoPlan]
             ELSE [kind |-> "parsed", plan |-> JsonLoads(json_text).plan]

-----------------------------------------------------------------------------
(* MealPlanner.generate_meal_plan_advanced                                 *)

\* dosha_strictness of filter_foods_for_user when none is passed
DEFAULT_STRICTNESS == 7

\* the candidate count under which the planner filters again
FEW_CANDIDATES == 10

\* top_n of score_and_rank_foods
TOP_N == 100

\* the list with its first two entries exchanged
strategies_Swapped == <<"simple", "structured", "template_guided">>

\* the strategies, in the order of the list the loop walks
strategies == <<"structured", "simple", "template_guided">>

\* the strategy raises before it calls the LLM: a confidence that is no
\* number (structured), a candidate row without Food_Item (simple), a dosha
\* of None or a frame without Category (template-guided)
PromptRaises(strategy, req, cand) ==
    CASE strategy = "structured" -> ~req.dosha_info.confidence_is_number
      [] strategy = "simple" -> cand # <<>> /\ "Food_Item" \notin req.cat.cols
      [] strategy = "template_guided" ->
            req.dosha_info.dosha.tag = "none" \/ "Category" \notin req.cat.cols

\* one strategy on one answer of the LLM: whether the LLM was called, how the
\* attempt ended, and the plan it parsed
Attempt(strategy, req, cand, resp) ==
    IF PromptRaises(strategy, req, cand)
    THEN [called |-> FALSE, outcome |-> "raised", plan |-> NoPlan]
    ELSE LET r == _call_llm_and_parse(resp)
         IN  IF r.kind # "parsed"
             THEN [called |-> TRUE, outcome |-> r.kind, plan |-> NoPlan]
             ELSE IF _validate_plan(r.plan, req.days)
                  THEN [called |-> TRUE, outcome |-> "valid", plan |-> r.plan]
                  ELSE [called |-> TRUE, outcome |-> "invalid", plan |-> r.plan]

\* a loop that also returns a plan the validator rejected
Accepts_Lenient(att) == att.outcome \in {"valid", "invalid"}

\* the loop returns the plan of this attempt
Accepts(att) == att.outcome = "valid"

\* a return that stamps the plan it hands back
AcceptedPlan_Stamped(att) == [att.plan EXCEPT !.method = "llm"]

\* return plan
AcceptedPlan(att) == att.plan

\* a loop that gives up one strategy early
AfterFailure_Early(idx) == IF idx < Len(strategies) - 1 THEN "strategy" ELSE "fallback"

\* where the loop goes after strategy number idx failed
AfterFailure(idx) == IF idx < Len(strategies) THEN "strategy" ELSE "fallback"

\* head(n)
Head_n(df, n) == SubSeq(df, 1, IF Len(df) < n THEN Len(df) ELSE n)

\* the requests the model draws
CalorieChoices == {0, 39, 2000}

DoshaInfos ==
    [dosha : {NamedDosha("vata"), NamedDosha("Unknown"), MissingDosha, NullDosha},
     confidence_is_number : {TRUE}]
        \cup {[dosha |-> NamedDosha("vata"), confidence_is_number |-> FALSE]}

PlanCatalogs ==
    {[rows |-> Rep("rice", FEW_CANDIDATES), cols |-> AllCols]}
        \cup [rows : {<<"cake">>},
              cols : {AllCols, AllCols \ {"Category"}, AllCols \ {"Food_Item"},
                      AllCols \ {"food_key"}}]

PlanProfiles ==
    [Allergies : {NoneText, Text(<<"N", "u", "t", ",", " ", "e", "g", "g">>)},
     Health_Conditions : {NoneText}, Food_preference : {"None"},
     Dietary_Restrictions : {NoneText}]

Requests ==
    [days : DayKeys, daily_calories : CalorieChoices, dosha_info : DoshaInfos,
     cat : PlanCatalogs, prof : PlanProfiles]

PlanInit ==
    /\ FilterIdle
    /\ UnitIdle
    /\ SharedIdle
    /\ preq \in Requests
    /\ ppc = "start"
    /\ pcand = <<>>
    /\ pidx = 1
    /\ ptried = <<>>
    /\ poutcomes = <<>>
    /\ pplan = NoPlan
    /\ pllm = 0
    /\ pret = NoPlan
    /\ psource = "none"

\* lines 90-120: filter (again at strictness 0.3 when fewer than 10 rows are
\* left), then score and rank; a ValidationError of the filter leaves as
\* MealPlanGenerationError.  The prompts read the frame; its order by score
\* is not read by anything the model follows.
Prepare ==
    /\ ppc = "start"
    /\ \E first \in FilterOutcomes(preq.cat, preq.prof, GetDosha(preq.dosha_info),
                                   PLANNER_MAX_ITEMS, DEFAULT_STRICTNESS) :
          IF first.err
          THEN ppc' = "raised" /\ pcand' = pcand
          ELSE IF Len(first.df) < FEW_CANDIDATES
               THEN \E second \in FilterOutcomes(preq.cat, preq.prof, GetDosha(preq.dosha_info),
                                                 PLANNER_MAX_ITEMS, RELAXED_STRICTNESS) :
                       IF second.err
                       THEN ppc' = "raised" /\ pcand' = pcand
                       ELSE ppc' = "strategy" /\ pcand' = Head_n(second.df, TOP_N)
               ELSE ppc' = "strategy" /\ pcand' = Head_n(first.df, TOP_N)
    /\ UNCHANGED <<preq, pidx, ptried, poutcomes, pplan, pllm, pret, psource>>
    /\ UNCHANGED fvars
    /\ UNCHANGED <<uvars, hvars>>

\* lines 129-145: one turn of the strategy loop, on whatever the LLM answers
TryStrategy ==
    /\ ppc = "strategy"
    /\ \E resp \in Responses :
          LET att == Attempt(strategies[pidx], preq, pcand, resp)
          IN  /\ ptried' = Append(ptried, strategies[pidx])
              /\ poutcomes' = Append(poutcomes, att.outcome)
              /\ pplan' = att.plan
              /\ pllm' = IF att.called THEN pllm + 1 ELSE pllm
              /\ IF Accepts(att)
                 THEN /\ ppc' = "done"
                      /\ pret' = AcceptedPlan(att)
                      /\ psource' = "strategy"
                      /\ pidx' = pidx
                 ELSE /\ ppc' = AfterFailure(pidx)
                      /\ pidx' = pidx + 1
                      /\ UNCHANGED <<pret, psource>>
    /\ UNCHANGED <<preq, pcand>>
    /\ UNCHANGED fvars
    /\ UNCHANGED <<uvars, hvars>>

\* lines 147-149: the ultimate fallback
Fallback ==
    /\ ppc = "fallback"
    /\ pret' = _generate_fallback_plan(preq.dosha_info, preq.daily_calories, preq.days)
    /\ psource' = IF FallbackRaises(preq.dosha_info) THEN "minimal" ELSE "fallback"
    /\ ppc' = "done"
    /\ UNCHANGED <<preq, pcand, pidx, ptried, poutcomes, pplan, pllm>>
    /\ UNCHANGED fvars
    /\ UNCHANGED <<uvars, hvars>>

PlanNext == Prepare \/ TryStrategy \/ Fallback

SpecPlan == PlanInit /\ [][PlanNext]_vars

\* once in the loop the call runs on: each turn of the loop ends when the
\* LLM client returns or raises, and the fallback is straight-line code
FairSpecPlan == SpecPlan /\ WF_vars(TryStrategy) /\ WF_vars(Fallback)

-----------------------------------------------------------------------------
(* Properties of generate_meal_plan_advanced                               *)

\* the call returned what _generate_fallback_plan built
FromFallback == ppc = "done" /\ psource \in {"fallback", "minimal"}

\* the attempts so far all failed
AllFailed == \A k \in DOMAIN poutcomes : poutcomes[k] # "valid"

\* day d of the plan is a day record with non-empty breakfast, lunch, dinner
FullDay(plan, d) ==
    /\ DayAt(plan, d).tag = "dict"
    /\ \A meal \in {"breakfast", "lunch", "dinner"} :
          /\ MealOf(DayAt(plan, d), meal).tag = "list"
          /\ MealOf(DayAt(plan, d), meal).items # <<>>

\* C2: when every strategy failed, the plan the call returns passes
\* _validate_plan for the requested number of days, whatever days and
\* daily_calories were asked for.
C2_FallbackPassesValidation ==
    FromFallback => _validate_plan(pret, preq.days)

\* C3: a plan returned from the strategy loop is, unchanged, the plan the
\* latest strategy parsed; that plan passes _validate_plan, the strategy is
\* the first whose answer did, and the strategies before it are the ones
\* that precede it in the order structured, simple, template-guided.
C3_FirstValidPlanReturned ==
    (ppc = "done" /\ psource = "strategy") =>
        LET k == Len(poutcomes)
        IN  /\ k \in 1..3
            /\ poutcomes[k] = "valid"
            /\ \A j \in 1..(k - 1) : poutcomes[j] # "valid"
            /\ ptried = SubSeq(<<"structured", "simple", "template_guided">>, 1, k)
            /\ pret = pplan
            /\ _validate_plan(pret, preq.days)

C3_Witness ==
    /\ ppc = "done"
    /\ psource = "strategy"
    /\ ptried = <<"structured", "simple", "template_guided">>
    /\ poutcomes = <<"transport", "invalid", "valid">>
    /\ pret = LLMPlan(MaxDays, GoodDay, "good")

\* C4: the attempts of one call are a prefix of structured, simple,
\* template-guided (fixed order, none twice), every attempt but the latest
\* failed, there are at most as many LLM calls as attempts and at most three,
\* and after the call is done no attempt and no LLM call is made.
C4_OrderedOnceEach ==
    /\ [](/\ Len(ptried) <= 3
          /\ ptried = SubSeq(<<"structured", "simple", "template_guided">>, 1, Len(ptried))
          /\ Len(poutcomes) = Len(ptried)
          /\ \A j \in 1..(Len(poutcomes) - 1) : poutcomes[j] # "valid"
          /\ pllm <= Len(ptried)
          /\ pllm <= 3)
    /\ [][ppc = "done" => (pllm' = pllm /\ ptried' = ptried)]_vars

C4_Witness ==
    /\ ppc = "done"
    /\ psource = "strategy"
    /\ ptried = <<"structured", "simple">>
    /\ pllm = 2

\* C5: the fallback is reached only when three attempts were made and all
\* failed, the step that builds the fallback plan makes no LLM call, and a
\* call that is in the strategy loop always comes to return a plan.
C5_FallbackLastAndTerminates ==
    /\ [](ppc = "fallback" => (Len(poutcomes) = 3 /\ AllFailed))
    /\ [](FromFallback => (Len(poutcomes) = 3 /\ AllFailed /\ pret.tag = "dict"))
    /\ [][ppc = "fallback" => (pllm' = pllm /\ ppc' = "done")]_vars
    /\ ((ppc = "strategy") ~> (ppc = "done"))

C5_Witness ==
    /\ ppc = "done"
    /\ psource = "fallback"
    /\ pllm = 3
    /\ pret.method = "fallback_template"

\* C6: an attempt that ends in a transport error, an answer with no
\* parseable JSON, or a plan that fails _validate_plan leaves no returned
\* plan behind and moves the loop on to the next strategy, or to the
\* fallback after the third, the same way in all three cases; the call
\* raises only before its first attempt.
C6_FailuresHandledAlike ==
    /\ [][(/\ ppc = "strategy"
           /\ Len(poutcomes') = Len(poutcomes) + 1
           /\ poutcomes'[Len(poutcomes')] \in {"transport", "unparseable", "invalid"})
          => (/\ pret' = pret
              /\ pret' = NoPlan
              /\ psource' = "none"
              /\ pidx' = pidx + 1
              /\ ppc' = IF pidx < 3 THEN "strategy" ELSE "fallback")]_vars
    /\ [](ppc = "raised" => poutcomes = <<>>)

C6_Witness ==
    /\ ppc = "done"
    /\ psource = "fallback"
    /\ poutcomes = <<"transport", "unparseable", "invalid">>

\* C7: every plan the call returns, from a strategy, from the fallback or as
\* the minimal plan, has day_1 .. day_days, each with non-empty breakfast,
\* lunch and dinner.
C7_EveryRequestedDayFull ==
    ppc = "done" => \A d \in 1..preq.days : FullDay(pret, d)

-----------------------------------------------------------------------------
(* The item cap of filter_foods_for_user                                   *)

\* the frame lists index labels in catalog order, none twice
InCatalogOrder(df) == \A i, j \in DOMAIN df : i < j => df[i] < df[j]

\* C11: when more than max_items rows are left the call returns exactly
\* max_items of them, each with calories no higher than any row it dropped;
\* when at most max_items are left it returns them all, in catalog order.
C11_CapKeepsLowestCalories ==
    fpc = "returned" =>
        IF Len(fres.precap) > fmax
        THEN /\ Len(fres.df) = fmax
             /\ Cardinality(Range(fres.df)) = fmax
             /\ Range(fres.df) \subseteq Range(fres.precap)
             /\ \A r \in Range(fres.df) : \A s \in Range(fres.precap) \ Range(fres.df) :
                   Calories(fcat, r) <= Calories(fcat, s)
        ELSE /\ fres.df = fres.precap
             /\ InCatalogOrder(fres.df)

\* the cap dropped a row that comes earlier in the catalog than a row it kept
C11_Witness ==
    /\ fpc = "returned"
    /\ Len(fres.precap) > fmax
    /\ \E r \in Range(fres.df) : \E s \in Range(fres.precap) \ Range(fres.df) :
          s < r /\ Calories(fcat, r) < Calories(fcat, s)

-----------------------------------------------------------------------------
(* The relaxed pass of filter_foods_for_user                               *)

\* C19: when the five stages leave fewer than 20 rows and dosha_strictness
\* is above 0.3, the frame before the cap is the rows of the full catalog
\* that pass the allergy filter, the diet-preference filter and the dosha
\* filter at 0.3, in catalog order; health conditions and dietary
\* restrictions exclude nothing on this pass.
C19_RelaxedPassIsCriticalRows ==
    (fpc = "returned" /\ Len(fres.strict) < MIN_VARIETY /\ fstrict > RELAXED_STRICTNESS) =>
        LET pattern == create_regex_pattern(parse_restrictions(fprof.Allergies))
        IN  /\ fres.relaxed
            /\ Range(fres.precap) = {r \in DOMAIN fcat.rows : Critical(r, pattern)}
            /\ InCatalogOrder(fres.precap)

\* the relaxed pass kept a row that a health condition or a dietary
\* restriction excludes, and dropped a row that fails a critical filter
C19_Witness ==
    /\ fpc = "returned"
    /\ Len(fres.strict) < MIN_VARIETY
    /\ fstrict > RELAXED_STRICTNESS
    /\ fres.relaxed
    /\ \E r \in Range(fres.precap) : SoftExcluded(r, SoftTerms)
    /\ Range(fres.precap) # DOMAIN fcat.rows

-----------------------------------------------------------------------------
(* FoodFilter.filter_by_dosha_balance                                      *)

\* the longest catalog a single call of the dosha filter is given
MaxBandRows == 3

\* effects on Vata: rice -1, peanut 0, sugar 0.3, cake 1
BandKinds == {"rice", "peanut", "sugar", "cake"}

BandCatalogs ==
    [rows : UNION {[1..n -> BandKinds] : n \in 1..MaxBandRows},
     cols : {AllCols, AllCols \ {"Dosha_Vata"}}]

BandDoshas ==
    {NoDosha, Dosha(""), Dosha("vata"), Dosha("VATA"), Dosha("pitta"), Dosha("ether")}

\* strictness in tenths, on both sides of 0.5 and of 0.8
BandStrictness == {0, 3, 4, 5, 6, 7, 8, 9, 10}

DoshaInit ==
    /\ FilterIdle
    /\ PlanIdle
    /\ SharedIdle
    /\ ufn = "filter_by_dosha_balance"
    /\ uarg \in [cat : BandCatalogs, target_dosha : BandDoshas, strictness : BandStrictness]
    /\ upc = "call"
    /\ uout = <<>>

\* one call of the dosha filter on the whole catalog
DoshaCall ==
    /\ ufn = "filter_by_dosha_balance"
    /\ upc = "call"
    /\ uout' = filter_by_dosha_balance(uarg.cat, FullFrame(uarg.cat), uarg.target_dosha,
                                       uarg.strictness)
    /\ upc' = "returned"
    /\ UNCHANGED <<ufn, uarg>>
    /\ UNCHANGED <<fvars, pvars, hvars>>

DoshaNext == DoshaCall

SpecDosha == DoshaInit /\ [][DoshaNext]_vars

DoshaFiltered == ufn = "filter_by_dosha_balance" /\ upc = "returned"

\* the target dosha names a column the catalog has
HasTargetColumn ==
    /\ ~uarg.target_dosha.none
    /\ uarg.target_dosha.name # ""
    /\ DoshaCol(uarg.target_dosha.name) \in uarg.cat.cols

\* whether the band of a strictness keeps a row of that effect
BandKeeps(strictness, effect) ==
    IF strictness >= 8 THEN effect < 0
    ELSE IF strictness >= 5 THEN effect <= 0
    ELSE effect <= 5

-----------------------------------------------------------------------------
(* FoodFilter.score_foods_for_user                                         *)

\* scores are counted in units of 0.00001: effects are in tenths and the
\* weights of dosha_result['scores'] in ten-thousandths
Points(n) == n * 100000

\* round(score, 2): to the nearest 0.01, a tie to the even hundredth
Round2(x) ==
    LET r == x % 1000
        below == x - r
    IN  IF 2 * r < 1000 THEN below
        ELSE IF 2 * r > 1000 THEN below + 1000
        ELSE IF (below \div 1000) % 2 = 0 THEN below ELSE below + 1000

\* dosha_result.get('dosha', '').lower(); None has no lower()
TargetOf(dosha_result) ==
    CASE dosha_result.dosha.tag = "str" ->
           IF dosha_result.dosha.name = "Vata" THEN "vata" ELSE dosha_result.dosha.name
      [] dosha_result.dosha.tag = "missing" -> ""

ScoreRaises(dosha_result) == dosha_result.dosha.tag = "none"

\* the dosha balance score of the target dosha
DoshaBalance(cat, r, target_dosha) ==
    IF target_dosha = "" \/ DoshaCol(target_dosha) \notin cat.cols THEN 0
    ELSE LET dosha_effect == Effect(cat, r, DoshaCol(target_dosha))
         IN  IF dosha_effect < 0 THEN Points(40)
             ELSE IF dosha_effect = 0 THEN Points(20)
             ELSE -Points(20)

\* contribution = -dosha_effect * dosha_score * 20, summed over the doshas
\* of dosha_scores whose column the row has
RECURSIVE MultiDosha(_, _, _, _)
MultiDosha(cat, r, dosha_scores, names) ==
    IF names = {} THEN 0
    ELSE LET d == CHOOSE d \in names : TRUE
             contribution ==
                 IF DoshaCol(d) \in cat.cols
                 THEN -Effect(cat, r, DoshaCol(d)) * dosha_scores[d] * 20
                 ELSE 0
         IN  contribution + MultiDosha(cat, r, dosha_scores, names \ {d})

\* the calorie shaping, had it penalised from 400 up
CalorieShaping_Wide(cat, r) ==
    LET calories == IF "Calories" \in cat.cols THEN Calories(cat, r) ELSE 0
    IN  IF 50 <= calories /\ calories <= 400 THEN Points(10)
        ELSE IF calories > 400 THEN -Points(10)
        ELSE 0

\* moderate calorie foods preferred; row.get('Calories', 0)
CalorieShaping(cat, r) ==
    LET calories == IF "Calories" \in cat.cols THEN Calories(cat, r) ELSE 0
    IN  IF 50 <= calories /\ calories <= 400 THEN Points(10)
        ELSE IF calories > 600 THEN -Points(10)
        ELSE 0

\* protein content bonus; row.get('Protein', 0), in tenths of a gram
ProteinBonus(cat, r) ==
    LET protein == IF "Protein" \in cat.cols THEN Row(cat, r).Protein ELSE 0
    IN  IF protein > 50 THEN Points(5) ELSE 0

beneficial_categories ==
    <<<<"v", "e", "g", "e", "t", "a", "b", "l", "e", "s">>,
      <<"f", "r", "u", "i", "t", "s">>,
      <<"w", "h", "o", "l", "e", " ", "g", "r", "a", "i", "n", "s">>,
      <<"l", "e", "g", "u", "m", "e", "s">>,
      <<"h", "e", "r", "b", "s">>,
      <<"s", "p", "i", "c", "e", "s">>>>

processed_indicators ==
    <<<<"p", "r", "o", "c", "e", "s", "s", "e", "d">>,
      <<"p", "a", "c", "k", "a", "g", "e", "d">>,
      <<"c", "a", "n", "n", "e", "d">>,
      <<"i", "n", "s", "t", "a", "n", "t">>>>

\* str(row.get('Category', '')).lower() and str(row.get('Food_Item', '')).lower()
CategoryOf(cat, r) == IF "Category" \in cat.cols THEN Lower(Row(cat, r).Category) ELSE <<>>
FoodNameOf(cat, r) == IF "Food_Item" \in cat.cols THEN Lower(Row(cat, r).Food_Item) ELSE <<>>

\* +15 once, at the first beneficial category found
CategoryBonus(cat, r) ==
    IF \E i \in DOMAIN beneficial_categories :
          IsSubstring(beneficial_categories[i], CategoryOf(cat, r))
    THEN Points(15) ELSE 0

\* -15 once, at the first processed indicator found in the name or category
ProcessedPenalty(cat, r) ==
    IF \E i \in DOMAIN processed_indicators :
          \/ IsSubstring(processed_indicators[i], FoodNameOf(cat, r))
          \/ IsSubstring(processed_indicators[i], CategoryOf(cat, r))
    THEN -Points(15) ELSE 0

\* score of one row before it is rounded
RawScore(cat, r, dosha_result) ==
    DoshaBalance(cat, r, TargetOf(dosha_result))
        + MultiDosha(cat, r, dosha_result.scores, DOMAIN dosha_result.scores)
        + CalorieShaping(cat, r) + ProteinBonus(cat, r)
        + CategoryBonus(cat, r) + ProcessedPenalty(cat, r)

\* df_scored.at[idx, 'user_score']
user_score(cat, r, dosha_result) == Round2(RawScore(cat, r, dosha_result))

\* sort_values('user_score', ascending=False): the default kind is
\* quicksort, which is not stable, so rows of equal score come out in any order
RECURSIVE SortedDesc(_, _, _)
SortedDesc(cat, S, dosha_result) ==
    IF S = {} THEN {<<>>}
    ELSE LET top == {x \in S : \A y \in S :
                        user_score(cat, x, dosha_result) >= user_score(cat, y, dosha_result)}
         IN  UNION {{<<x>> \o q : q \in SortedDesc(cat, S \ {x}, dosha_result)} : x \in top}

\* every outcome of score_foods_for_user: it raises, or returns the frame
\* sorted, with the user_score of each row
score_foods_for_user(cat, df, dosha_result) ==
    IF ScoreRaises(dosha_result)
    THEN {[err |-> TRUE, df |-> <<>>, user_score |-> <<>>]}
    ELSE {[err |-> FALSE, df |-> q,
           user_score |-> [r \in Range(df) |-> user_score(cat, r, dosha_result)]] :
              q \in SortedDesc(cat, Range(df), dosha_result)}

-----------------------------------------------------------------------------
(* The calls of score_foods_for_user the model draws                       *)

\* the longest frame scored
MaxScoreRows == 3

ScoreKinds == {"rice", "peanut", "cake", "sugar", "egg", "oil"}

ScoreCatalogs ==
    [rows : UNION {[1..n -> ScoreKinds] : n \in 0..MaxScoreRows},
     cols : {AllCols, AllCols \ {"Category", "Protein"}, AllCols \ {"Dosha_Vata", "Calories"}}]

\* dosha_result: the primary dosha and the weight of each dosha
DoshaResults ==
    {[dosha |-> NamedDosha("vata"),
      scores |-> [d \in {"vata", "pitta", "kapha"} |->
                     CASE d = "vata" -> 6000 [] d = "pitta" -> 3000 [] d = "kapha" -> 1000]],
     [dosha |-> NamedDosha("Vata"),
      scores |-> [d \in {"vata", "pitta", "kapha"} |->
                     CASE d = "vata" -> 3334 [] d = "pitta" -> 3333 [] d = "kapha" -> 3333]],
     [dosha |-> NamedDosha("Unknown"), scores |-> <<>>],
     [dosha |-> MissingDosha, scores |-> [d \in {"ether", "kapha"} |-> 5000]],
     [dosha |-> NullDosha, scores |-> <<>>]}

ScoreInit ==
    /\ FilterIdle
    /\ PlanIdle
    /\ SharedIdle
    /\ ufn = "score_foods_for_user"
    /\ uarg \in [cat : ScoreCatalogs, dosha_result : DoshaResults]
    /\ upc = "call"
    /\ uout = <<>>

\* one call of score_foods_for_user on the frame of all rows of the catalog
ScoreCall ==
    /\ ufn = "score_foods_for_user"
    /\ upc = "call"
    /\ \E out \in score_foods_for_user(uarg.cat, FullFrame(uarg.cat), uarg.dosha_result) :
          /\ uout' = out
          /\ upc' = IF out.err THEN "raised" ELSE "returned"
    /\ UNCHANGED <<ufn, uarg>>
    /\ UNCHANGED <<fvars, pvars, hvars>>

ScoreNext == ScoreCall

SpecScore == ScoreInit /\ [][ScoreNext]_vars

-----------------------------------------------------------------------------
(* Properties of score_foods_for_user                                      *)

\* a call of score_foods_for_user has returned
Scored == ufn = "score_foods_for_user" /\ upc = "returned"

\* C12: the rows come back in order of non-increasing user_score, and rows
\* of equal user_score in the order they had in the input frame.
C12_DescendingAndStable ==
    Scored =>
        \A i, j \in DOMAIN uout.df :
            i < j =>
                /\ uout.user_score[uout.df[i]] >= uout.user_score[uout.df[j]]
                /\ (uout.user_score[uout.df[i]] = uout.user_score[uout.df[j]]
                       => uout.df[i] < uout.df[j])

\* the effect of row r on dosha d, when the catalog has the column
HasEffect(r, d) == DoshaCol(d) \in uarg.cat.cols
EffectOn(r, d) == Effect(uarg.cat, r, DoshaCol(d))

\* the reference sum of the scoring rules for row r, in units of 0.00001
ReferenceSum(r) ==
    LET row == Row(uarg.cat, r)
        cols == uarg.cat.cols
        target == TargetOf(uarg.dosha_result)
        weights == uarg.dosha_result.scores
        weighted(d) ==
            IF d \in DOMAIN weights /\ HasEffect(r, d)
            THEN -EffectOn(r, d) * weights[d] * 20 ELSE 0
        calories == IF "Calories" \in cols THEN Calories(uarg.cat, r) ELSE 0
        protein == IF "Protein" \in cols THEN row.Protein ELSE 0
        category == IF "Category" \in cols THEN Lower(row.Category) ELSE <<>>
        name == IF "Food_Item" \in cols THEN Lower(row.Food_Item) ELSE <<>>
    IN  (IF target = "" \/ ~HasEffect(r, target) THEN 0
         ELSE IF EffectOn(r, target) < 0 THEN 4000000
         ELSE IF EffectOn(r, target) = 0 THEN 2000000 ELSE -2000000)
        + weighted("vata") + weighted("pitta") + weighted("kapha") + weighted("ether")
        + (IF calories >= 50 /\ calories <= 400 THEN 1000000
           ELSE IF calories > 600 THEN -1000000 ELSE 0)
        + (IF protein > 50 THEN 500000 ELSE 0)
        + (IF \E k \in Range(beneficial_categories) : IsSubstring(k, category)
           THEN 1500000 ELSE 0)
        + (IF \E k \in Range(processed_indicators) :
                 IsSubstring(k, name) \/ IsSubstring(k, category)
           THEN -1500000 ELSE 0)

\* C13 as stated: the user_score of every row is the reference sum itself.
C13_ScoreIsReferenceSum ==
    Scored => \A r \in Range(uout.df) : uout.user_score[r] = ReferenceSum(r)

\* C13, amended: the user_score of every row is the reference sum rounded
\* to two decimals: a whole number of hundredths, no further than half a
\* hundredth from the sum.
C13_ScoreIsRoundedReferenceSum ==
    Scored =>
        \A r \in Range(uout.df) :
            /\ uout.user_score[r] % 1000 = 0
            /\ 2 * (uout.user_score[r] - ReferenceSum(r)) <= 1000
            /\ 2 * (ReferenceSum(r) - uout.user_score[r]) <= 1000

\* a row scored on every rule at once, whose sum had to be rounded
C13_Witness ==
    /\ Scored
    /\ \E r \in Range(uout.df) :
          /\ uout.user_score[r] # ReferenceSum(r)
          /\ EffectOn(r, "vata") < 0
          /\ Calories(uarg.cat, r) > 600
          /\ ProcessedPenalty(uarg.cat, r) < 0
    /\ \E r \in Range(uout.df) :
          /\ ProteinBonus(uarg.cat, r) > 0
          /\ CategoryBonus(uarg.cat, r) > 0

-----------------------------------------------------------------------------
(* The calls of _validate_plan the model draws                             *)

\* a day whose dinner is no list, and a day with no breakfast key
NonListDinnerDay == [GoodDay EXCEPT !.dinner = NonListMeal]
NoBreakfastDay == [GoodDay EXCEPT !.breakfast = AbsentMeal]

DayChoices == {AbsentDay, NonDictDay, GoodDay, EmptyLunchDay}

TotalChoices == {AbsentTotal, StrTotal, Num(0), Num(1900), NaNTotal, TrueTotal}

TotalsChoices ==
    {NoTotals, NonDictTotals} \cup {Totals(f) : f \in [DayKeys -> TotalChoices]}

\* the values handed to the validator: dicts of days and totals, a dict with
\* one odd meal, and a value that is no dict
CandidatePlans ==
    {PlanOf(day, totals, "", FALSE) : day \in [DayKeys -> DayChoices], totals \in TotalsChoices}
        \cup {PlanOf([d \in DayKeys |-> odd], NoTotals, "", FALSE) :
                 odd \in {NonListDinnerDay, NoBreakfastDay}}
        \cup {[NoPlan EXCEPT !.tag = "list"]}

ValidateInit ==
    /\ FilterIdle
    /\ PlanIdle
    /\ SharedIdle
    /\ ufn = "_validate_plan"
    /\ uarg \in [plan : CandidatePlans, expected_days : DayKeys]
    /\ upc = "call"
    /\ uout = <<>>

\* one call of _validate_plan: the verdict, and the plan as the call left it
ValidateCall ==
    /\ ufn = "_validate_plan"
    /\ upc = "call"
    /\ uout' = [verdict |-> _validate_plan(uarg.plan, uarg.expected_days), plan |-> uarg.plan]
    /\ upc' = "returned"
    /\ UNCHANGED <<ufn, uarg>>
    /\ UNCHANGED <<fvars, pvars, hvars>>

ValidateNext == ValidateCall

SpecValidate == ValidateInit /\ [][ValidateNext]_vars

-----------------------------------------------------------------------------
(* Properties of _validate_plan                                            *)

Validated == ufn = "_validate_plan" /\ upc = "returned"

\* C14: on a plan with no totals key the verdict is true exactly when the
\* plan is a mapping holding day_1 .. day_expected_days, each a mapping with
\* non-empty lists under breakfast, lunch and dinner; the plan is left as it
\* was, and the verdict is the one the validator gives that plan every time.
C14_ShapeDecidesWithoutTotals ==
    (Validated /\ uarg.plan.totals.tag = "absent") =>
        /\ uout.verdict =
              (/\ uarg.plan.tag = "dict"
               /\ \A d \in 1..uarg.expected_days : FullDay(uarg.plan, d))
        /\ uout.plan = uarg.plan
        /\ uout.verdict = _validate_plan(uout.plan, uarg.expected_days)

\* a plan with day_1 in order is rejected for two days: day_2 is missing
C14_Witness ==
    /\ Validated
    /\ uarg.plan.totals.tag = "absent"
    /\ uarg.expected_days = 2
    /\ FullDay(uarg.plan, 1)
    /\ DayAt(uarg.plan, 2).tag = "absent"
    /\ uout.verdict = FALSE

\* C15: a plan with a totals key is accepted only if totals is a mapping
\* and every day key present in totals maps to a positive number.
C15_EveryTotalPositive ==
    (Validated /\ uarg.plan.tag = "dict" /\ uarg.plan.totals.tag # "absent" /\ uout.verdict) =>
        /\ uarg.plan.totals.tag = "dict"
        /\ \A d \in DayKeys :
              TotalAt(uarg.plan, d).tag # "absent" =>
                  (TotalAt(uarg.plan, d).tag = "num" /\ TotalAt(uarg.plan, d).val > 0)

-----------------------------------------------------------------------------
(* Failures generate_meal_plan_advanced lets through                       *)

-----------------------------------------------------------------------------
(* Construction of a UserProfile                                           *)

\* a keyword argument: given with a value, or left out
Given(v) == [tag |-> "given", val |-> v]
Missing == [tag |-> "missing", val |-> 0]

GenderEnum == {"male", "female", "other"}

\* Field(..., ge=lo) alone
Field_ge(v, lo, hi) == v >= lo

\* Field(..., ge=lo, le=hi): the value is accepted inside the closed range
Field_ge_le(v, lo, hi) == v >= lo /\ v <= hi

\* the constraint on a required field; weights and heights are in tenths of
\* a kilogram and of a centimetre
FieldAccepts(k, v) ==
    CASE k = "Age" -> Field_ge_le(v, 1, 120)
      [] k = "Gender" -> v \in GenderEnum
      [] k = "Weight_kg" -> Field_ge_le(v, 200, 5000)
      [] k = "Height_cm" -> Field_ge_le(v, 500, 2500)

\* the fields pydantic reports: a required one left out, or one whose value
\* its constraint refuses
ProfileErrors(data) ==
    {k \in {"Age", "Gender", "Weight_kg", "Height_cm"} :
        data[k].tag = "missing" \/ ~FieldAccepts(k, data[k].val)}

\* UserProfile(**data): the profile, or a validation error and no profile
UserProfile(data) ==
    IF ProfileErrors(data) # {}
    THEN [err |-> TRUE, fields |-> ProfileErrors(data), profile |-> <<>>]
    ELSE [err |-> FALSE, fields |-> {},
          profile |-> [Age |-> data.Age.val, Gender |-> data.Gender.val,
                       Weight_kg |-> data.Weight_kg.val,
                       Height_cm |-> data.Height_cm.val]]

Ages == {Missing} \cup {Given(v) : v \in {-1, 0, 1, 30, 120, 121, 150}}
Genders == {Missing} \cup {Given(v) : v \in {"female", "other", "robot"}}
Weights == {Missing} \cup {Given(v) : v \in {199, 200, 650, 5000, 5001, 6000}}
Heights == {Missing} \cup {Given(v) : v \in {499, 500, 1650, 2500, 2501}}

ProfileInit ==
    /\ FilterIdle
    /\ PlanIdle
    /\ SharedIdle
    /\ ufn = "UserProfile"
    /\ uarg \in [Age : Ages, Gender : Genders, Weight_kg : Weights, Height_cm : Heights]
    /\ upc = "call"
    /\ uout = <<>>

\* one construction
ProfileCall ==
    /\ ufn = "UserProfile"
    /\ upc = "call"
    /\ uout' = UserProfile(uarg)
    /\ upc' = "returned"
    /\ UNCHANGED <<ufn, uarg>>
    /\ UNCHANGED <<fvars, pvars, hvars>>

ProfileNext == ProfileCall

SpecProfile == ProfileInit /\ [][ProfileNext]_vars

Constructed == ufn = "UserProfile" /\ upc = "returned"

InRanges(data) ==
    /\ data.Age.val >= 1 /\ data.Age.val <= 120
    /\ data.Weight_kg.val >= 200 /\ data.Weight_kg.val <= 5000
    /\ data.Height_cm.val >= 500 /\ data.Height_cm.val <= 2500

\* C18: a construction succeeds only with age in [1,120], weight in [20,500]
\* kg and height in [50,250] cm; with a given value outside its range it
\* ends in a validation error and no profile.
C18_OutOfRangeIsRejected ==
    Constructed =>
        /\ ~uout.err => InRanges(uarg)
        /\ ((\A k \in {"Age", "Weight_kg", "Height_cm"} : uarg[k].tag = "given")
              /\ ~InRanges(uarg)) => (uout.err /\ uout.profile = <<>>)

\* age 150 with everything else in range: rejected for the age alone
C18_Witness ==
    /\ Constructed
    /\ uarg.Age = Given(150)
    /\ uarg.Weight_kg = Given(650)
    /\ uarg.Height_cm = Given(1650)
    /\ uarg.Gender = Given("female")
    /\ uout.err
    /\ uout.fields = {"Age"}

-----------------------------------------------------------------------------
(* Requests that share one catalog object                                  *)

\* the requests running at once
NumRequests == 2

Requests_ == 1..NumRequests

\* a DataFrame object: the index labels of its rows, in order, and its columns
Frame(rows, cols) == [rows |-> rows, cols |-> cols]

\* the catalog object, and the k-th object request q creates
CatalogRef == <<0, 0>>
NewRef(h, q) == <<q, Cardinality({o \in DOMAIN h : o[1] = q}) + 1>>

\* df.copy() without the copy: the same object under another name
df_alias(h, src, q) == [heap |-> h, ref |-> src]

\* df.copy(): a new object with the rows and columns of the old one
df_copy(h, src, q) == [heap |-> h @@ (NewRef(h, q) :> h[src]), ref |-> NewRef(h, q)]

\* df[mask], head(n), sort_values(...): a new object with some of the rows
\* of the old one, in an order of its own
df_derive(h, src, rows, q) ==
    [heap |-> h @@ (NewRef(h, q) :> Frame(rows, h[src].cols)), ref |-> NewRef(h, q)]

\* df[col] = ...: the object itself gets the column
df_setcol(h, ref, col) == [h EXCEPT ![ref].cols = @ \cup {col}]

Reverse(s) == [i \in 1..Len(s) |-> s[Len(s) + 1 - i]]

Operations ==
    {"filter_foods_for_user", "score_and_rank_foods", "make_food_snippet",
     "generate_meal_plan_advanced"}

\* the statement a call starts at
EntryOf(op) ==
    CASE op = "filter_foods_for_user" -> "f_copy"
      [] op = "generate_meal_plan_advanced" -> "f_copy"
      [] op = "score_and_rank_foods" -> "s_copy"
      [] op = "make_food_snippet" -> "snippet"

SharedCatalogs ==
    {Frame(<<1, 2>>, {"Food_Item", "Calories", "food_key"}),
     Frame(<<1, 2, 3>>, {"Food_Item", "Calories", "food_key", "Category"})}

\* every request is handed the catalog object
SharedInit ==
    /\ FilterIdle
    /\ PlanIdle
    /\ UnitIdle
    /\ heap \in {(CatalogRef :> c) : c \in SharedCatalogs}
    /\ reqs \in [Requests_ -> {[op |-> op, pc |-> EntryOf(op), src |-> CatalogRef, df |-> CatalogRef] :
                                  op \in Operations}]

\* request q moves to pc with its frame variable bound to ref; no other
\* call is under way
Goes(q, pc, src, ref) ==
    /\ reqs' = [reqs EXCEPT ![q].pc = pc, ![q].src = src, ![q].df = ref]
    /\ UNCHANGED <<fvars, pvars, uvars>>

\* filter_foods_for_user: df = food_df.copy()
FilterCopy(q) ==
    /\ reqs[q].pc = "f_copy"
    /\ LET c == df_copy(heap, reqs[q].src, q)
       IN  heap' = c.heap /\ Goes(q, "f_stages", reqs[q].src, c.ref)

\* the stages: each returns df itself, or df[mask]; the relaxed pass starts
\* again from food_df.copy()
FilterStages(q) ==
    /\ reqs[q].pc = "f_stages"
    /\ \/ UNCHANGED heap /\ Goes(q, "f_cap", reqs[q].src, reqs[q].df)
       \/ LET c == df_derive(heap, reqs[q].df, Tail(heap[reqs[q].df].rows), q)
          IN  heap' = c.heap /\ Goes(q, "f_cap", reqs[q].src, c.ref)
       \/ LET c == df_copy(heap, reqs[q].src, q)
          IN  heap' = c.heap /\ Goes(q, "f_cap", reqs[q].src, c.ref)

\* the cap: df as it is, or df.sort_values('Calories').head(max_items); then
\* the call returns, and generate_meal_plan_advanced goes on to score
FilterCap(q) ==
    /\ reqs[q].pc = "f_cap"
    /\ LET next == IF reqs[q].op = "filter_foods_for_user" THEN "done" ELSE "s_copy"
       IN  \/ UNCHANGED heap /\ Goes(q, next, reqs[q].df, reqs[q].df)
           \/ LET c == df_derive(heap, reqs[q].df,
                                 SubSeq(Reverse(heap[reqs[q].df].rows), 1, 1), q)
              IN  heap' = c.heap /\ Goes(q, next, c.ref, c.ref)

\* score_foods_for_user: df_scored = df.copy()
ScoreCopy(q) ==
    /\ reqs[q].pc = "s_copy"
    /\ LET c == df_copy(heap, reqs[q].src, q)
       IN  heap' = c.heap /\ Goes(q, "s_addcol", reqs[q].src, c.ref)

\* df_scored['user_score'] = 0.0, and the scores written with .at
ScoreAddColumn(q) ==
    /\ reqs[q].pc = "s_addcol"
    /\ heap' = df_setcol(heap, reqs[q].df, "user_score")
    /\ Goes(q, "s_sort", reqs[q].src, reqs[q].df)

\* df_scored.sort_values(...), or, when scoring raised, the except branch
\* of score_and_rank_foods: food_df.head(top_n)
ScoreSort(q) ==
    /\ reqs[q].pc = "s_sort"
    /\ LET after == IF reqs[q].op = "score_and_rank_foods" THEN "done" ELSE "strategy"
       IN  \/ LET c == df_derive(heap, reqs[q].df, Reverse(heap[reqs[q].df].rows), q)
              IN  heap' = c.heap /\ Goes(q, "s_rank", reqs[q].src, c.ref)
           \/ LET c == df_derive(heap, reqs[q].src, heap[reqs[q].src].rows, q)
              IN  heap' = c.heap /\ Goes(q, after, c.ref, c.ref)

\* scored_df['rank'] = range(...), then scored_df.head(top_n)
ScoreRank(q) ==
    /\ reqs[q].pc = "s_rank"
    /\ LET after == IF reqs[q].op = "score_and_rank_foods" THEN "done" ELSE "strategy"
           ranked == df_setcol(heap, reqs[q].df, "rank")
           c == df_derive(ranked, reqs[q].df, ranked[reqs[q].df].rows, q)
       IN  heap' = c.heap /\ Goes(q, after, c.ref, c.ref)

\* make_food_snippet (food_df.head(n)) and the strategies (food_df.head(40),
\* food_df['Category'].value_counts()): they read a frame of their own
Snippet(q) ==
    /\ reqs[q].pc \in {"snippet", "strategy"}
    /\ LET c == df_derive(heap, reqs[q].src, heap[reqs[q].src].rows, q)
       IN  heap' = c.heap /\ Goes(q, "done", reqs[q].src, c.ref)

SharedStep(q) ==
    \/ FilterCopy(q) \/ FilterStages(q) \/ FilterCap(q)
    \/ ScoreCopy(q) \/ ScoreAddColumn(q) \/ ScoreSort(q) \/ ScoreRank(q)
    \/ Snippet(q)

SharedNext == \E q \in Requests_ : SharedStep(q)

SpecShared == SharedInit /\ [][SharedNext]_vars

\* C17: no step of any request changes the rows, the columns or the row
\* order of the catalog object, however the requests interleave.
C17_CatalogNeverChanges ==
    [][heap # <<>> => heap'[CatalogRef] = heap[CatalogRef]]_vars

\* two requests have scored and ranked frames of their own next to the
\* catalog, and both are done
C17_Witness ==
    /\ heap # <<>>
    /\ \A q \in Requests_ : reqs[q].pc = "done" /\ "rank" \in heap[reqs[q].src].cols
    /\ "rank" \notin heap[CatalogRef].cols

-----------------------------------------------------------------------------
(* FoodFilter.filter_by_health_conditions                                  *)

\* the longest catalog a single call of the health filter is given
MaxHealthRows == 2

\* cake lists sugar among its ingredients only; the key of transfat holds
\* "trans fat" without the space
HealthKinds == {"rice", "cake", "sugar", "transfat"}

HealthCatalogs ==
    [rows : UNION {[1..n -> HealthKinds] : n \in 1..MaxHealthRows},
     cols : {AllCols, AllCols \ {"Ingredients"}, AllCols \ {"food_key"}}]

\* Health_Conditions: None, "", a table key, a part of a key, a text that
\* holds a key, two conditions, and one the table does not know
ConditionTexts ==
    {NoneText,
     Text(<<>>),
     Text(<<"D", "i", "a", "b", "e", "t", "e", "s">>),
     Text(<<"h", "e", "a", "r", "t">>),
     Text(<<"t", "y", "p", "e", " ", "2", " ", "d", "i", "a", "b", "e", "t", "e", "s">>),
     Text(<<"g", "o", "u", "t", ",", " ", "h", "e", "a", "r", "t", " ", "d", "i", "s", "e", "a", "s", "e">>),
     Text(<<"a", "s", "t", "h", "m", "a">>)}

HealthInit ==
    /\ FilterIdle
    /\ PlanIdle
    /\ SharedIdle
    /\ ufn = "filter_by_health_conditions"
    /\ uarg \in [cat : HealthCatalogs, health_conditions : ConditionTexts]
    /\ upc = "call"
    /\ uout = <<>>

\* one call of the health filter on the whole catalog
HealthCall ==
    /\ ufn = "filter_by_health_conditions"
    /\ upc = "call"
    /\ uout' = filter_by_health_conditions(uarg.cat, FullFrame(uarg.cat), uarg.health_conditions)
    /\ upc' = "returned"
    /\ UNCHANGED <<ufn, uarg>>
    /\ UNCHANGED <<fvars, pvars, hvars>>

HealthNext == HealthCall

SpecHealth == HealthInit /\ [][HealthNext]_vars

HealthFiltered ==
    ufn = "filter_by_health_conditions" /\ upc = "returned" /\ "food_key" \in uarg.cat.cols

\* the avoid-terms of the table entries that a parsed condition of the call
\* matches, the term inside the key or the key inside the term
Avoided ==
    LET terms == Terms(uarg.health_conditions)
        matched == {e \in DOMAIN condition_restrictions :
                       \E c \in terms :
                          \/ IsSubstring(c, condition_restrictions[e].condition)
                          \/ IsSubstring(condition_restrictions[e].condition, c)}
    IN  {t \in UNION {condition_restrictions[e].avoid : e \in DOMAIN condition_restrictions} :
            \E e \in matched : t \in condition_restrictions[e].avoid}

\* C21, as claimed: the filter removes exactly the rows whose food_key
\* contains an avoid-term of a matched condition.
C21_RemovesRowsHoldingAnAvoidTerm ==
    HealthFiltered =>
        LET avoided == Avoided
        IN  /\ ~uout.err
            /\ Range(uout.df) =
                  {r \in DOMAIN uarg.cat.rows :
                      \A t \in avoided : ~IsSubstring(t, Row(uarg.cat, r).key)}

\* C21, amended: the filter removes exactly the rows whose food_key holds an
\* avoid-term of a matched condition with any run of whitespace, or none,
\* where the term has a space; the rows kept stay in order, the ingredient
\* text is not read, and conditions that match no table key remove nothing.
C21_RemovesRowsMatchingAnAvoidTerm ==
    HealthFiltered =>
        LET avoided == Avoided
        IN  /\ ~uout.err
            /\ InCatalogOrder(uout.df)
            /\ Range(uout.df) =
                  {r \in DOMAIN uarg.cat.rows :
                      \A t \in avoided :
                         ~StrContains(Row(uarg.cat, r).key, <<EscapeTerm(t)>>)}
            /\ (avoided = {} => uout.df = FullFrame(uarg.cat))

\* "heart" matched heart disease inside the table key: the row keyed
\* transfat went for "trans fat", and the cake with sugar among its
\* ingredients stayed
C21_Witness ==
    /\ HealthFiltered
    /\ uarg.health_conditions = Text(<<"h", "e", "a", "r", "t">>)
    /\ "Ingredients" \in uarg.cat.cols
    /\ uarg.cat.rows = <<"transfat", "cake">>
    /\ uout.df = <<2>>

-----------------------------------------------------------------------------
(* MealPlanner._call_llm_and_parse on answers of several pieces            *)

\* the most pieces an answer is made of
MaxPieces == 3

Pieces ==
    {Prose, Fence, OpenBrace, CloseBrace,
     Obj(LLMPlan(1, GoodDay, "absent")), Obj(LLMPlan(1, EmptyLunchDay, "absent"))}

PieceAnswers ==
    {TransportError} \cup {Answer(t) : t \in UNION {[1..n -> Pieces] : n \in 1..MaxPieces}}

ParseInit ==
    /\ FilterIdle
    /\ PlanIdle
    /\ SharedIdle
    /\ ufn = "_call_llm_and_parse"
    /\ uarg \in PieceAnswers
    /\ upc = "call"
    /\ uout = <<>>

\* one call, on what the LLM answered
ParseCall ==
    /\ ufn = "_call_llm_and_parse"
    /\ upc = "call"
    /\ uout' = _call_llm_and_parse(uarg)
    /\ upc' = "returned"
    /\ UNCHANGED <<ufn, uarg>>
    /\ UNCHANGED <<fvars, pvars, hvars>>

ParseNext == ParseCall

SpecParse == ParseInit /\ [][ParseNext]_vars

ParsedAnswer == ufn = "_call_llm_and_parse" /\ upc = "returned" /\ uarg.kind = "text"

\* the first "{" of the text opens the JSON text of a plan
FirstSpan(text) ==
    {k \in DOMAIN text :
        /\ text[k].t = "obj"
        /\ \A m \in 1..(k - 1) : text[m].t \notin {"open", "obj"}}

\* C22: an answer whose first balanced {...} span is the text of a plan is
\* parsed to that plan whatever braces follow it, and an answer with no
\* brace region fails the strategy as unparseable.
C22_FirstSpanIsParsed ==
    ParsedAnswer =>
        /\ \A k \in FirstSpan(uarg.text) :
              uout.kind = "parsed" /\ uout.plan = uarg.text[k].plan
        /\ ((\A k \in DOMAIN uarg.text : uarg.text[k].t \in {"prose", "fence"}) =>
              uout.kind = "unparseable")

-----------------------------------------------------------------------------
(* make_food_snippet                                                       *)

\* the longest frame a snippet is made of
MaxSnippetRows == 3

\* the lines of a snippet
HeaderLine == [kind |-> "header", row |-> 0, total |-> 0, shown |-> 0]
RuleLine == [kind |-> "rule", row |-> 0, total |-> 0, shown |-> 0]
RowLine(r) == [kind |-> "row", row |-> r, total |-> 0, shown |-> 0]
SummaryLine(total, shown) == [kind |-> "summary", row |-> 0, total |-> total, shown |-> shown]
NoFoodsLine == [kind |-> "none", row |-> 0, total |-> 0, shown |-> 0]

Min(a, b) == IF a < b THEN a ELSE b

\* make_food_snippet(food_df, n), as the lines of the text it returns: result
\* is joined from lines before the summary is appended to lines
make_food_snippet(df, n) ==
    IF Len(df) = 0 THEN <<NoFoodsLine>>
    ELSE LET sample_df == Head_n(df, n)
             lines == <<HeaderLine, RuleLine>> \o [i \in 1..Len(sample_df) |-> RowLine(sample_df[i])]
             result == lines
             lines_ == Append(lines, SummaryLine(Len(df), Min(n, Len(df))))
         IN  result

SnippetSizes == {0, 1, 2, 60}

SnippetInit ==
    /\ FilterIdle
    /\ PlanIdle
    /\ SharedIdle
    /\ ufn = "make_food_snippet"
    /\ uarg \in [cat : [rows : UNION {[1..k -> {"rice", "cake", "egg"}] : k \in 0..MaxSnippetRows},
                        cols : {AllCols}],
                 n : SnippetSizes]
    /\ upc = "call"
    /\ uout = <<>>

\* one call, on the whole catalog in its order
SnippetCall ==
    /\ ufn = "make_food_snippet"
    /\ upc = "call"
    /\ uout' = [text |-> make_food_snippet(FullFrame(uarg.cat), uarg.n)]
    /\ upc' = "returned"
    /\ UNCHANGED <<ufn, uarg>>
    /\ UNCHANGED <<fvars, pvars, hvars>>

SnippetNext == SnippetCall

SpecSnippet == SnippetInit /\ [][SnippetNext]_vars

\* C23: for a frame that is not empty the text lists the first min(n, total)
\* rows, in order, and its last line is the summary of the total and of the
\* number shown.
C23_EndsWithCountSummary ==
    (ufn = "make_food_snippet" /\ upc = "returned" /\ uarg.cat.rows # <<>>) =>
        LET total == Len(uarg.cat.rows)
            rows == SelectSeq(uout.text, LAMBDA l : l.kind = "row")
        IN  /\ rows = [i \in 1..Min(uarg.n, total) |-> RowLine(i)]
            /\ uout.text[Len(uout.text)] = SummaryLine(total, Min(uarg.n, total))

-----------------------------------------------------------------------------
(* The calories of the meals: the structured prompt and the fallback plan  *)

\* breakfast_cal, lunch_cal, dinner_cal, snack_cal of the structured prompt
StructuredTargets(daily_calories) ==
    [breakfast |-> IntOfShare(daily_calories, 25), lunch |-> IntOfShare(daily_calories, 40),
     dinner |-> IntOfShare(daily_calories, 30), snacks |-> IntOfShare(daily_calories, 5)]

\* the fallback plan, had it left the nut snack out for a user allergic to nuts
FallbackPlanFor_Screened(user_profile, dosha_info, daily_calories, days) ==
    LET plan == _generate_fallback_plan(dosha_info, daily_calories, days)
    IN  IF \E t \in Range(parse_restrictions(user_profile.Allergies)) :
              IsSubstring(t, <<"n", "u", "t", "s">>)
        THEN [plan EXCEPT !.day = [d \in DOMAIN plan.day |-> [plan.day[d] EXCEPT !.snacks = AbsentMeal]]]
        ELSE plan

\* _generate_fallback_plan(user_profile, dosha_info, daily_calories, days):
\* user_profile is not read
FallbackPlanFor(user_profile, dosha_info, daily_calories, days) ==
    _generate_fallback_plan(dosha_info, daily_calories, days)

\* daily_calories on both sides of the places where a share is cut
MealCalories == {0, 1, 39, 1999, 2000, 2503}

\* users with no constraint, with allergies and a vegan diet, with a health
\* condition and a dietary restriction
MealProfiles ==
    {[Allergies |-> NoneText, Health_Conditions |-> NoneText,
      Food_preference |-> "None", Dietary_Restrictions |-> NoneText],
     [Allergies |-> Text(<<"N", "u", "t", ",", " ", "e", "g", "g">>), Health_Conditions |-> NoneText,
      Food_preference |-> "vegan", Dietary_Restrictions |-> NoneText],
     [Allergies |-> NoneText, Health_Conditions |-> Text(<<"D", "i", "a", "b", "e", "t", "e", "s">>),
      Food_preference |-> "vegetarian", Dietary_Restrictions |-> Text(<<"c", "a", "k", "e">>)]}

\* a call for each of two users, with the same dosha_info, daily_calories and days
MealsInit ==
    /\ FilterIdle
    /\ PlanIdle
    /\ SharedIdle
    /\ ufn \in {"_generate_with_structured_prompt", "_generate_fallback_plan"}
    /\ uarg \in [user_a : MealProfiles, user_b : MealProfiles, dosha_info : DoshaInfos,
                 daily_calories : MealCalories, days : DayKeys]
    /\ upc = "call"
    /\ uout = <<>>

\* the structured prompt is built: its calorie targets, or the exception of
\* the format of a confidence that is no number
StructuredPrompt ==
    /\ ufn = "_generate_with_structured_prompt"
    /\ upc = "call"
    /\ uout' = [raised |-> ~uarg.dosha_info.confidence_is_number,
                targets |-> StructuredTargets(uarg.daily_calories)]
    /\ upc' = "returned"
    /\ UNCHANGED <<ufn, uarg>>
    /\ UNCHANGED <<fvars, pvars, hvars>>

\* the fallback plan of each of the two users
FallbackCalls ==
    /\ ufn = "_generate_fallback_plan"
    /\ upc = "call"
    /\ uout' = [a |-> FallbackPlanFor(uarg.user_a, uarg.dosha_info, uarg.daily_calories, uarg.days),
                b |-> FallbackPlanFor(uarg.user_b, uarg.dosha_info, uarg.daily_calories, uarg.days)]
    /\ upc' = "returned"
    /\ UNCHANGED <<ufn, uarg>>
    /\ UNCHANGED <<fvars, pvars, hvars>>

MealsNext == StructuredPrompt \/ FallbackCalls

SpecMeals == MealsInit /\ [][MealsNext]_vars

PromptBuilt == ufn = "_generate_with_structured_prompt" /\ upc = "returned"
FallbackBuilt == ufn = "_generate_fallback_plan" /\ upc = "returned"

\* q is hundredths percent of daily_calories, cut to an integer
IsShare(q, daily_calories, hundredths) ==
    100 * q <= daily_calories * hundredths /\ daily_calories * hundredths < 100 * (q + 1)

\* the only item of a meal of the template plan
OnlyItem(meal) == meal.items[1]

\* C24: the calorie targets of the structured prompt, and the calories of
\* the meals of every day of the template fallback plan, are 25%, 40%, 30%
\* and 5% of daily_calories cut to an integer.
C24_MealSharesOfTheDay ==
    /\ PromptBuilt =>
          /\ IsShare(uout.targets.breakfast, uarg.daily_calories, 25)
          /\ IsShare(uout.targets.lunch, uarg.daily_calories, 40)
          /\ IsShare(uout.targets.dinner, uarg.daily_calories, 30)
          /\ IsShare(uout.targets.snacks, uarg.daily_calories, 5)
    /\ (FallbackBuilt /\ ~FallbackRaises(uarg.dosha_info)) =>
          \A d \in 1..uarg.days :
              /\ uout.a.day[d].tag = "dict"
              /\ OnlyItem(uout.a.day[d].breakfast).calories =
                    StructuredTargets(uarg.daily_calories).breakfast
              /\ IsShare(OnlyItem(uout.a.day[d].breakfast).calories, uarg.daily_calories, 25)
              /\ IsShare(OnlyItem(uout.a.day[d].lunch).calories, uarg.daily_calories, 40)
              /\ IsShare(OnlyItem(uout.a.day[d].dinner).calories, uarg.daily_calories, 30)
              /\ IsShare(OnlyItem(uout.a.day[d].snacks).calories, uarg.daily_calories, 5)

\* a three-day fallback plan for 1999 calories: 499, 799, 599 and 99 a day
C24_Witness ==
    /\ FallbackBuilt
    /\ uarg.daily_calories = 1999
    /\ uarg.days = MaxDays
    /\ ~FallbackRaises(uarg.dosha_info)
    /\ \A d \in 1..MaxDays :
          /\ OnlyItem(uout.a.day[d].breakfast).calories = 499
          /\ OnlyItem(uout.a.day[d].lunch).calories = 799
          /\ OnlyItem(uout.a.day[d].dinner).calories = 599
          /\ OnlyItem(uout.a.day[d].snacks).calories = 99

-----------------------------------------------------------------------------
(* The relaxed pass against the five stages                                *)

\* C25: when the relaxed pass runs (the five stages left fewer than 20 rows
\* and dosha_strictness is above 0.3), every row the five stages kept is in
\* the frame of the relaxed pass.
C25_RelaxedPassKeepsStrictRows ==
    (fpc = "returned" /\ fres.relaxed) =>
        /\ fstrict > RELAXED_STRICTNESS
        /\ Len(fres.strict) < MIN_VARIETY
        /\ Range(fres.strict) \subseteq Range(fres.precap)

\* the five stages kept some rows under a named dosha, and the relaxed
\* pass brought back rows they had dropped
C25_Witness ==
    /\ fpc = "returned"
    /\ fres.relaxed
    /\ ~DoshaFalsy(fdosha)
    /\ DoshaCol(fdosha.name) \in fcat.cols
    /\ fres.strict # <<>>
    /\ Range(fres.strict) # Range(fres.precap)
    /\ Range(fres.strict) \subseteq Range(fres.precap)

-----------------------------------------------------------------------------
(* The lenient and the moderate band of the dosha filter                   *)

\* strictness below 0.5, and from 0.5 to below 0.8
LenientStrictness == {0, RELAXED_STRICTNESS, 4}
ModerateStrictness == {5, 6, DEFAULT_STRICTNESS}

\* the same catalog and target dosha under a lenient and a moderate strictness
BandPairInit ==
    /\ FilterIdle
    /\ PlanIdle
    /\ SharedIdle
    /\ ufn = "filter_by_dosha_balance twice"
    /\ uarg \in [cat : BandCatalogs, target_dosha : BandDoshas,
                 lenient : LenientStrictness, moderate : ModerateStrictness]
    /\ upc = "call"
    /\ uout = <<>>

\* the dosha filter on the whole catalog, once with each strictness
BandPairCall ==
    /\ ufn = "filter_by_dosha_balance twice"
    /\ upc = "call"
    /\ uout' = [lenient |-> filter_by_dosha_balance(uarg.cat, FullFrame(uarg.cat),
                                                    uarg.target_dosha, uarg.lenient),
                moderate |-> filter_by_dosha_balance(uarg.cat, FullFrame(uarg.cat),
                                                     uarg.target_dosha, uarg.moderate)]
    /\ upc' = "returned"
    /\ UNCHANGED <<ufn, uarg>>
    /\ UNCHANGED <<fvars, pvars, hvars>>

BandPairNext == BandPairCall

SpecBandPair == BandPairInit /\ [][BandPairNext]_vars

\* the values DOSHA_MAP gives: decreases -1, neutral 0, increases 1
MappedEffects == {-10, 0, 10}

\* every effect of the catalog on the three doshas is one DOSHA_MAP gives
LoadedEffects(cat) ==
    \A r \in DOMAIN cat.rows :
        /\ Row(cat, r).Dosha_Vata \in MappedEffects
        /\ Row(cat, r).Dosha_Pitta \in MappedEffects
        /\ Row(cat, r).Dosha_Kapha \in MappedEffects

-----------------------------------------------------------------------------
(* The two filtering calls of generate_meal_plan_advanced                  *)

\* the candidates, had the second call dropped the target dosha
CandidateFrames_NoDosha(cat, prof, target_dosha) ==
    UNION {IF first.err THEN {[err |-> TRUE, first |-> <<>>, again |-> FALSE, df |-> <<>>]}
           ELSE IF Len(first.df) < FEW_CANDIDATES
                THEN {[err |-> second.err, first |-> first.df, again |-> TRUE, df |-> second.df] :
                         second \in FilterOutcomes(cat, prof, NoDosha, PLANNER_MAX_ITEMS,
                                                   RELAXED_STRICTNESS)}
                ELSE {[err |-> FALSE, first |-> first.df, again |-> FALSE, df |-> first.df]} :
           first \in FilterOutcomes(cat, prof, target_dosha, PLANNER_MAX_ITEMS, DEFAULT_STRICTNESS)}

\* candidate_df: filter_foods_for_user with max_items 200 and the default
\* strictness, and once more with dosha_strictness 0.3 when fewer than 10
\* rows came back; first is the frame of the first call
CandidateFrames(cat, prof, target_dosha) ==
    UNION {IF first.err THEN {[err |-> TRUE, first |-> <<>>, again |-> FALSE, df |-> <<>>]}
           ELSE IF Len(first.df) < FEW_CANDIDATES
                THEN {[err |-> second.err, first |-> first.df, again |-> TRUE, df |-> second.df] :
                         second \in FilterOutcomes(cat, prof, target_dosha, PLANNER_MAX_ITEMS,
                                                   RELAXED_STRICTNESS)}
                ELSE {[err |-> FALSE, first |-> first.df, again |-> FALSE, df |-> first.df]} :
           first \in FilterOutcomes(cat, prof, target_dosha, PLANNER_MAX_ITEMS, DEFAULT_STRICTNESS)}

MaxCandidateRows == 3

\* effects on Vata: rice -1, peanut 0, sugar 0.3, cake 1
CandidateKinds == {"rice", "peanut", "sugar", "cake"}

\* few rows of any kinds, or ten rows after a food
CandidateCatalogs ==
    [rows : UNION {[1..n -> CandidateKinds] : n \in 0..MaxCandidateRows}
                \cup {<<k>> \o Rep("rice", FEW_CANDIDATES) : k \in CandidateKinds},
     cols : {AllCols}]
        \cup [rows : {<<"rice", "cake">>}, cols : {AllCols \ {"food_key"}}]

CandidatesInit ==
    /\ FilterIdle
    /\ PlanIdle
    /\ SharedIdle
    /\ ufn = "candidate_df"
    /\ uarg \in [cat : CandidateCatalogs, prof : Profiles, target_dosha : DoshaChoices]
    /\ upc = "call"
    /\ uout = <<>>

\* the filtering of generate_meal_plan_advanced, up to the scoring
CandidatesCall ==
    /\ ufn = "candidate_df"
    /\ upc = "call"
    /\ \E out \in CandidateFrames(uarg.cat, uarg.prof, uarg.target_dosha) :
          /\ uout' = out
          /\ upc' = IF out.err THEN "raised" ELSE "returned"
    /\ UNCHANGED <<ufn, uarg>>
    /\ UNCHANGED <<fvars, pvars, hvars>>

CandidatesNext == CandidatesCall

SpecCandidates == CandidatesInit /\ [][CandidatesNext]_vars

\* C27: when the first filtering call returns fewer than 10 rows, the
\* second call (dosha_strictness 0.3) returns only rows the first call
\* returned: the candidates never grow in number.
C27_SecondCallIsSubset ==
    (ufn = "candidate_df" /\ upc = "returned") =>
        /\ uout.again <=> Len(uout.first) < FEW_CANDIDATES
        /\ uout.again =>
              /\ Range(uout.df) \subseteq Range(uout.first)
              /\ Len(uout.df) <= Len(uout.first)

\* a diabetic user under Vata: the first call relaxed and returned rice and
\* sugar, the second call dropped the sugar
C27_Witness ==
    /\ ufn = "candidate_df"
    /\ upc = "returned"
    /\ uarg.cat.rows = <<"rice", "sugar">>
    /\ uarg.target_dosha = Dosha("vata")
    /\ uout.again
    /\ uout.first = <<1, 2>>
    /\ uout.df = <<1>>

-----------------------------------------------------------------------------
(* The fallback plan and the user                                          *)

\* C28: the fallback plans of two users who are given the same dosha_info,
\* daily_calories and days are the same plan, whatever their allergies,
\* food preference, dietary restrictions and health conditions; the nut
\* snack of the template is in the plan of a user allergic to nuts.
C28_FallbackIgnoresTheUser ==
    FallbackBuilt =>
        /\ uout.a = uout.b
        /\ ~FallbackRaises(uarg.dosha_info) =>
              \A d \in 1..uarg.days :
                  /\ uout.a.day[d].snacks.tag = "list"
                  /\ uout.b.day[d].snacks.tag = "list"
                  /\ OnlyItem(uout.a.day[d].snacks).name = "Herbal Tea with Nuts"
                  /\ OnlyItem(uout.b.day[d].snacks).name = "Herbal Tea with Nuts"

\* a vegan user allergic to nuts and a user with no constraint get the same
\* template plan, nut snack included
C28_Witness ==
    /\ FallbackBuilt
    /\ ~FallbackRaises(uarg.dosha_info)
    /\ uarg.user_a.Allergies = Text(<<"N", "u", "t", ",", " ", "e", "g", "g">>)
    /\ uarg.user_a.Food_preference = "vegan"
    /\ uarg.user_b.Allergies = NoneText
    /\ uarg.user_b.Food_preference = "None"
    /\ uout.a = uout.b
    /\ OnlyItem(uout.a.day[1].snacks).name = "Herbal Tea with Nuts"

-----------------------------------------------------------------------------
(* The calories of a day of the fallback plan, in double arithmetic        *)

(* daily_calories * 0.40 is a product of doubles, and a Python int has no  *)
(* width: numbers here are nine limbs of 13 bits, least significant first. *)

WideIndex == 1..9

\* a number below 2^31 as limbs
Wide(n) == <<n % 8192, (n \div 8192) % 8192, (n \div 8192) \div 8192, 0, 0, 0, 0, 0, 0>>

\* the number of limbs that hold at most 13 bits each with nothing above
Narrow(w) == w[1] + 8192 * w[2] + 8192 * 8192 * w[3]

\* F of the value of x: an argument is worked out once, before it is used
Strict(F(_), x) == CHOOSE r \in {F(v) : v \in {x}} : TRUE

\* column sums brought back to limbs
RECURSIVE Carried(_, _)
Carried(cols, carry) ==
    IF cols = <<>> THEN <<>>
    ELSE <<(cols[1] + carry) % 8192>> \o Carried(Tail(cols), (cols[1] + carry) \div 8192)

WideAdd(a, b) ==
    Strict(LAMBDA cols : Carried(cols, 0),
           <<a[1] + b[1], a[2] + b[2], a[3] + b[3], a[4] + b[4], a[5] + b[5],
             a[6] + b[6], a[7] + b[7], a[8] + b[8], a[9] + b[9]>>)

\* the sum of a[i] * b[k + 1 - i] over i from 1 to upto
RECURSIVE Column(_, _, _, _)
Column(a, b, k, upto) ==
    IF upto = 0 THEN 0 ELSE a[upto] * b[k + 1 - upto] + Column(a, b, k, upto - 1)

WideMul(a, b) ==
    Strict(LAMBDA x : Strict(LAMBDA y :
               Carried(<<Column(x, y, 1, 1), Column(x, y, 2, 2), Column(x, y, 3, 3),
                         Column(x, y, 4, 4), Column(x, y, 5, 5), Column(x, y, 6, 6),
                         Column(x, y, 7, 7), Column(x, y, 8, 8), Column(x, y, 9, 9)>>, 0),
               b), a)

WideLeq(a, b) ==
    LET differ == {i \in WideIndex : a[i] # b[i]}
    IN  differ = {} \/ LET top == CHOOSE i \in differ : \A j \in differ : j <= i
                       IN  a[top] < b[top]

\* bit i of a number, bit 0 the least significant
Bit(w, i) ==
    IF i < 0 \/ i >= 13 * 9 THEN 0 ELSE (w[(i \div 13) + 1] \div (2 ^ (i % 13))) % 2

\* the number of bits up to the highest one set
BitLength(w) ==
    LET set == {i \in 0..(13 * 9 - 1) : Bit(w, i) = 1}
    IN  IF set = {} THEN 0 ELSE 1 + CHOOSE i \in set : \A j \in set : j <= i

\* the n bits of w from bit from on, as a number
RECURSIVE LimbFrom(_, _, _)
LimbFrom(w, from, n) ==
    IF n = 0 THEN 0 ELSE Bit(w, from + n - 1) * (2 ^ (n - 1)) + LimbFrom(w, from, n - 1)

\* w >> k for k >= 0, w << -k for k < 0
Shifted(w, k) ==
    Strict(LAMBDA v :
               <<LimbFrom(v, k, 13), LimbFrom(v, 13 + k, 13), LimbFrom(v, 26 + k, 13),
                 LimbFrom(v, 39 + k, 13), LimbFrom(v, 52 + k, 13), LimbFrom(v, 65 + k, 13),
                 LimbFrom(v, 78 + k, 13), LimbFrom(v, 91 + k, 13), LimbFrom(v, 104 + k, 13)>>,
           w)

\* a number from its hexadecimal digits, the first the most significant
RECURSIVE Hex(_)
Hex(digits) ==
    IF digits = <<>> THEN Wide(0)
    ELSE WideAdd(WideMul(Hex(SubSeq(digits, 1, Len(digits) - 1)), Wide(16)),
                 Wide(digits[Len(digits)]))

\* the double nearest to m * 2^e, ties to the even mantissa; a double is a
\* mantissa of at most 53 bits and an exponent
Double(m, e) ==
    Strict(LAMBDA v : Strict(LAMBDA drop :
               IF drop <= 0 THEN [m |-> v, e |-> e]
               ELSE IF Bit(v, drop - 1) = 1
                       /\ (Bit(v, drop) = 1 \/ \E i \in 0..(drop - 2) : Bit(v, i) = 1)
                    THEN [m |-> WideAdd(Shifted(v, drop), Wide(1)), e |-> e + drop]
                    ELSE [m |-> Shifted(v, drop), e |-> e + drop],
               BitLength(v) - 53), m)

\* int * float: the int is converted to the nearest double, and the
\* product is rounded
IntTimesFloat(n, x) ==
    Strict(LAMBDA f : Double(WideMul(f.m, x.m), f.e + x.e), Double(n, 0))

\* int(x) of a double that is not negative
IntOfDouble(x) == Strict(LAMBDA v : Shifted(v.m, 0 - v.e), x)

\* the literals 0.25, 0.40, 0.30, 0.05: 0x1.0p-2, 0x1.999999999999ap-2,
\* 0x1.3333333333333p-2, 0x1.999999999999ap-5
Literal(hundredths) ==
    CASE hundredths = 25 -> [m |-> Wide(1), e |-> -2]
      [] hundredths = 40 -> [m |-> Hex(<<1, 9, 9, 9, 9, 9, 9, 9, 9, 9, 9, 9, 9, 10>>), e |-> -54]
      [] hundredths = 30 -> [m |-> Hex(<<1, 3, 3, 3, 3, 3, 3, 3, 3, 3, 3, 3, 3, 3>>), e |-> -54]
      [] hundredths = 5 -> [m |-> Hex(<<1, 9, 9, 9, 9, 9, 9, 9, 9, 9, 9, 9, 9, 10>>), e |-> -57]
      [] hundredths = 10 -> [m |-> Hex(<<1, 9, 9, 9, 9, 9, 9, 9, 9, 9, 9, 9, 9, 10>>), e |-> -56]

\* the calories of a day, had the snack been a tenth of the day
WideFallbackDay_BigSnack(daily_calories) ==
    [breakfast |-> IntOfDouble(IntTimesFloat(daily_calories, Literal(25))),
     lunch |-> IntOfDouble(IntTimesFloat(daily_calories, Literal(40))),
     dinner |-> IntOfDouble(IntTimesFloat(daily_calories, Literal(30))),
     snacks |-> IntOfDouble(IntTimesFloat(daily_calories, Literal(10))),
     total |-> daily_calories]

\* the calories of the four meals of a day of daily_meals, and the day's
\* entry of totals, int(daily_calories) of an int
WideFallbackDay(daily_calories) ==
    [breakfast |-> IntOfDouble(IntTimesFloat(daily_calories, Literal(25))),
     lunch |-> IntOfDouble(IntTimesFloat(daily_calories, Literal(40))),
     dinner |-> IntOfDouble(IntTimesFloat(daily_calories, Literal(30))),
     snacks |-> IntOfDouble(IntTimesFloat(daily_calories, Literal(5))),
     total |-> daily_calories]

\* 2^53, up to which every int is a double
TwoTo53 == Hex(<<2, 0, 0, 0, 0, 0, 0, 0, 0, 0, 0, 0, 0, 0>>)

\* 2^53 - 64
NearTwoTo53 == Hex(<<1, 15, 15, 15, 15, 15, 15, 15, 15, 15, 15, 15, 12, 0>>)

MaxWideOffset == 127

\* daily_calories of a diet, and on both sides of 2^53
WideCalories ==
    {Wide(c) : c \in MealCalories} \cup {WideAdd(NearTwoTo53, Wide(k)) : k \in 0..MaxWideOffset}

WideInit ==
    /\ FilterIdle
    /\ PlanIdle
    /\ SharedIdle
    /\ ufn = "daily_meals"
    /\ uarg \in [daily_calories : WideCalories]
    /\ upc = "call"
    /\ uout = <<>>

\* a day of the template plan is built
WideFallbackCall ==
    /\ ufn = "daily_meals"
    /\ upc = "call"
    /\ uout' = WideFallbackDay(uarg.daily_calories)
    /\ upc' = "returned"
    /\ UNCHANGED <<ufn, uarg>>
    /\ UNCHANGED <<fvars, pvars, hvars>>

WideNext == WideFallbackCall

SpecWideMeals == WideInit /\ [][WideNext]_vars

WideBuilt == ufn = "daily_meals" /\ upc = "returned"

\* the calories of the four meals together
WideDayCalories(day) ==
    WideAdd(WideAdd(day.breakfast, day.lunch), WideAdd(day.dinner, day.snacks))

\* the four meals add up to at most the day's total, and to no less than
\* the total minus 3
WithinThreeOfTotal(day) ==
    LET meals == WideDayCalories(day)
    IN  WideLeq(meals, day.total) /\ WideLeq(day.total, WideAdd(meals, Wide(3)))

\* C29 as stated: for every non-negative integer daily_calories the
\* calories of the four meals of a day of the fallback plan add up to at
\* most the day's total int(daily_calories), and to no less than it minus 3.
C29_MealsAddUpToTheDay ==
    WideBuilt => WithinThreeOfTotal(uout)

\* C29, amended: the same for every daily_calories up to 2^53; for the
\* daily_calories of a diet the meals are those of the template plan.
C29_MealsAddUpToTheDayUpTo2To53 ==
    WideBuilt =>
        /\ WideLeq(uarg.daily_calories, TwoTo53) => WithinThreeOfTotal(uout)
        /\ \A c \in MealCalories :
              uarg.daily_calories = Wide(c) =>
                  /\ uout.total = Wide(c)
                  /\ Narrow(uout.breakfast) = OnlyItem(FallbackDay(c).breakfast).calories
                  /\ Narrow(uout.lunch) = OnlyItem(FallbackDay(c).lunch).calories
                  /\ Narrow(uout.dinner) = OnlyItem(FallbackDay(c).dinner).calories
                  /\ Narrow(uout.snacks) = OnlyItem(FallbackDay(c).snacks).calories

\* 39 calories a day: 9, 15, 11 and 1, three short of the day
C29_Witness ==
    /\ WideBuilt
    /\ uarg.daily_calories = Wide(39)
    /\ Narrow(WideDayCalories(uout)) = 36
    /\ uout.total = Wide(39)

-----------------------------------------------------------------------------
(* generate_meal_plan_llm, the backward-compatible entry point             *)

\* the mapping of the except branch: an error message, fallback true, and
\* day_1 with one item for each of breakfast, lunch and dinner
BasicPlan ==
    [plan |-> PlanOf([d \in DayKeys |->
                         IF d = 1
                         THEN Day(Meal(<<Item("Basic breakfast", 300)>>),
                                  Meal(<<Item("Basic lunch", 500)>>),
                                  Meal(<<Item("Basic dinner", 400)>>), AbsentMeal)
                         ELSE AbsentDay],
                     NoTotals, "", TRUE),
     fallback |-> TRUE]

\* the except clause, had it named MealPlanGenerationError only
Caught_GenerationOnly(error_class) == error_class = "MealPlanGenerationError"

\* except Exception: pydantic's ValidationError is a ValueError, and
\* MealPlanGenerationError an AyurvedicPlannerError(Exception)
Caught(error_class) == error_class \in {"pydantic.ValidationError", "MealPlanGenerationError"}

\* what leaves the try statement when error_class is raised in its body
Handled(error_class) ==
    IF Caught(error_class)
    THEN [raised |-> FALSE, failed |-> TRUE, result |-> BasicPlan]
    ELSE [raised |-> TRUE, failed |-> TRUE, result |-> <<>>]

\* user_profile: a UserProfile, or the dict of one, valid or not
EntryProfiles ==
    {[isdict |-> FALSE, data |-> <<>>]}
        \cup [isdict : {TRUE},
              data : [Age : {Given(30), Given(121)}, Gender : {Given("female"), Missing},
                      Weight_kg : {Given(650)}, Height_cm : {Given(1650)}]]

EntryInit ==
    /\ FilterIdle
    /\ PlanIdle
    /\ SharedIdle
    /\ ufn = "generate_meal_plan_llm"
    /\ uarg \in [user_profile : EntryProfiles, request : Requests]
    /\ upc = "call"
    /\ uout = <<>>

\* lines 514-516: a dict becomes a UserProfile, or the construction raises;
\* then generate_meal_plan_advanced is called
EntryConvert ==
    /\ ufn = "generate_meal_plan_llm"
    /\ upc = "call"
    /\ IF uarg.user_profile.isdict /\ UserProfile(uarg.user_profile.data).err
       THEN /\ uout' = Handled("pydantic.ValidationError")
            /\ upc' = IF Handled("pydantic.ValidationError").raised THEN "raised" ELSE "returned"
            /\ UNCHANGED pvars
       ELSE /\ upc' = "advanced"
            /\ uout' = uout
            /\ preq' = uarg.request
            /\ ppc' = "start"
            /\ pidx' = 1
            /\ pplan' = NoPlan
            /\ pret' = NoPlan
            /\ UNCHANGED <<pcand, ptried, poutcomes, pllm, psource>>
    /\ UNCHANGED <<ufn, uarg>>
    /\ UNCHANGED <<fvars, hvars>>

\* lines 518-527 and 529-538: the plan of generate_meal_plan_advanced is
\* returned, or its exception handled
EntryLeave ==
    /\ ufn = "generate_meal_plan_llm"
    /\ upc = "advanced"
    /\ ppc \in {"done", "raised"}
    /\ uout' = IF ppc = "done"
               THEN [raised |-> FALSE, failed |-> FALSE,
                     result |-> [plan |-> pret, fallback |-> FALSE]]
               ELSE Handled("MealPlanGenerationError")
    /\ upc' = IF ppc = "raised" /\ Handled("MealPlanGenerationError").raised
              THEN "raised" ELSE "returned"
    /\ UNCHANGED <<ufn, uarg>>
    /\ UNCHANGED <<fvars, pvars, hvars>>

EntryNext == EntryConvert \/ Prepare \/ TryStrategy \/ Fallback \/ EntryLeave

SpecEntry == EntryInit /\ [][EntryNext]_vars

\* the call of generate_meal_plan_llm is over
EntryOver == ufn = "generate_meal_plan_llm" /\ upc \in {"returned", "raised"}

\* C30: generate_meal_plan_llm never raises; when the profile construction
\* or generate_meal_plan_advanced fails it returns a mapping with an error
\* message, fallback true, and day_1 alone with one breakfast, one lunch
\* and one dinner item, whatever days was asked for; otherwise it returns
\* the plan of generate_meal_plan_advanced.
C30_EntryPointNeverRaises ==
    EntryOver =>
        /\ upc = "returned"
        /\ ~uout.raised
        /\ uout.failed <=>
              \/ uarg.user_profile.isdict /\ ProfileErrors(uarg.user_profile.data) # {}
              \/ ppc = "raised"
        /\ uout.failed =>
              /\ uout.result.fallback
              /\ uout.result.plan.error
              /\ DayAt(uout.result.plan, 1).tag = "dict"
              /\ \A meal \in required_meals : Len(MealOf(DayAt(uout.result.plan, 1), meal).items) = 1
              /\ DayAt(uout.result.plan, 1).snacks = AbsentMeal
              /\ \A d \in DayKeys \ {1} : DayAt(uout.result.plan, d) = AbsentDay
              /\ uout.result.plan.totals = NoTotals
        /\ ~uout.failed => uout.result = [plan |-> pret, fallback |-> FALSE]

\* three days were asked for, generate_meal_plan_advanced raised, and the
\* mapping returned holds day_1 alone
C30_Witness ==
    /\ EntryOver
    /\ upc = "returned"
    /\ uarg.request.days = MaxDays
    /\ ppc = "raised"
    /\ uout.failed
    /\ uout.result.fallback
    /\ DayAt(uout.result.plan, 1).breakfast = Meal(<<Item("Basic breakfast", 300)>>)
    /\ DayAt(uout.result.plan, 2) = AbsentDay

=============================================================================
